---- MODULE Spec2Model ----
(***************************************************************************)
(* The scale plugin (plugins/single_plugins/scale.cpp): the session state  *)
(* machine of class wayfire_scale, its grid layout and its handlers, with  *)
(* the host (output, views, render hooks, input grab) as the environment.  *)
(*                                                                         *)
(* Every method of the class is an operator from a state record to a state *)
(* record; every host callback is one action that applies the host's own   *)
(* change and then the whole handler.                                      *)
(***************************************************************************)
EXTENDS Integers, Sequences, FiniteSets, TLC

\* ------------------------------------------------------------ bounds
NumTop == 8        \* top-level windows the host can show (ids 1..NumTop)
NumChild == 1      \* child (transient) windows, all children of window 1
NumSibling == 1    \* further children of window 1, of the runs about fading
MainTop == 2       \* top-level windows of the runs that are not about the grid
AnimTicks == 1     \* frames an animation runs before it reaches its target
CoreHostEvents == 1 \* structural host events (a window attached, detached,
                    \* mapped, moved ...) in one run of Spec,
HostEvents == 2     \* ... of SpecHost
GridHostEvents == 1 \* ... and of SpecGrid
GeomViews == 3      \* windows laid out in one run of SpecGeom
GeomSpan == 11      \* the larger of the two workarea extents SpecGeom tries
LastWorkspace == 2  \* the host has workspaces 0..LastWorkspace

NULL == 0          \* nullptr as a wayfire_view

Toplevels == 1..NumTop
ChildViews == (NumTop + 1)..(NumTop + NumChild)
SiblingViews == (NumTop + NumChild + 1)..(NumTop + NumChild + NumSibling)
AllChildViews == ChildViews \cup SiblingViews
Views == Toplevels \cup ChildViews
MainViews == 1..MainTop
FamilyViews == MainViews \cup ChildViews
Workspaces == {0, 1}

\* view->parent: the tree is at most two levels deep
Parent(v) == IF v \in AllChildViews THEN 1 ELSE NULL

Min(S) == CHOOSE x \in S : \A y \in S : x <= y

\* integer division as C++ does it: the quotient truncated towards zero
TruncDiv(a, b) == IF a >= 0 THEN a \div b ELSE -((-a) \div b)

\* ------------------------------------------------------------ state
VARIABLES
    \* class wayfire_scale
    active, hook_set, button_connected, input_release_impending,
    all_workspaces, initial_workspace, initial_focus_view, current_focus_view,
    grid_rows, grid_cols, grid_last_row_cols, scale_data,
    connected,          \* the signal_connection_t members now connected to the output
    geom_connected,     \* views whose "geometry-changed" runs view_geometry_changed
    interact,           \* option scale/interact
    \* host
    status,             \* per view: gone, unmapped, mapped (in the workspace layer), minimized
    view_ws,            \* workspace holding the view's untransformed geometry
    cur_ws,             \* output->workspace->get_current_workspace()
    active_view,        \* output->get_active_view()
    plugin_active,      \* output->is_plugin_active("scale")
    grabbed,            \* grab_interface holds the input grab
    has_transformer,    \* views with a transformer named "scale"
    geom,               \* workarea, window geometries and the numeric targets
                        \* of the layout pass over them (SpecGeom only)
    \* observation
    host_events,        \* structural host events the run may still bring
    null_deref,         \* the last handler read through a null transformer pointer
    crashed             \* ... and the process died there

vars == <<active, hook_set, button_connected, input_release_impending,
          all_workspaces, initial_workspace, initial_focus_view,
          current_focus_view, grid_rows, grid_cols, grid_last_row_cols,
          scale_data, connected, geom_connected, interact, status, view_ws,
          cur_ws, active_view, plugin_active, grabbed, has_transformer,
          geom, host_events, null_deref, crashed>>

\* The state as one record, the form every method below works on.
St == [active |-> active, hook_set |-> hook_set,
       button_connected |-> button_connected,
       input_release_impending |-> input_release_impending,
       all_workspaces |-> all_workspaces,
       initial_workspace |-> initial_workspace,
       initial_focus_view |-> initial_focus_view,
       current_focus_view |-> current_focus_view,
       grid_rows |-> grid_rows, grid_cols |-> grid_cols,
       grid_last_row_cols |-> grid_last_row_cols,
       scale_data |-> scale_data, connected |-> connected,
       geom_connected |-> geom_connected, interact |-> interact,
       status |-> status, view_ws |-> view_ws, cur_ws |-> cur_ws,
       active_view |-> active_view, plugin_active |-> plugin_active,
       grabbed |-> grabbed, has_transformer |-> has_transformer,
       null_deref |-> null_deref]

\* struct view_scale_data.  present: the map has an entry for the view.
\* transformer: the pointer is non-null.  tscale / talpha: the targets of the
\* scale+translation animation and of the fade animation.  anim: frames left.
NoSlot == [present |-> FALSE, transformer |-> FALSE, row |-> 0, col |-> 0,
           tscale |-> "unset", talpha |-> "unset", anim |-> 0]
\* a value-initialized entry, as std::map::operator[] inserts it
DefaultSlot == [NoSlot EXCEPT !.present = TRUE]

Slots(s) == {v \in DOMAIN s.scale_data : s.scale_data[v].present}

\* scale_data[view]: inserts a default entry when there is none
Touch(s, view) ==
    IF s.scale_data[view].present THEN s
    ELSE [s EXCEPT !.scale_data[view] = DefaultSlot]

\* statements run in sequence: the state s is complete before e is computed
Then(s, e) == IF s.null_deref \in BOOLEAN THEN e ELSE s

\* ------------------------------------------------------------ host queries
\* view->children, in list order
Children(s, v) ==
    {c \in AllChildViews \cap DOMAIN s.status :
        Parent(c) = v /\ s.status[c] # "gone"}

Role(v) == "toplevel"

get_all_workspace_views(s) ==
    {v \in Toplevels \cap DOMAIN s.status :
        Role(v) = "toplevel" /\ s.status[v] = "mapped"}

get_current_workspace_views(s) ==
    {v \in get_all_workspace_views(s) : s.view_ws[v] = s.cur_ws}

get_views(s) ==
    IF s.all_workspaces THEN get_all_workspace_views(s)
    ELSE get_current_workspace_views(s)

scale_view(s, view) == view # NULL /\ view \in get_views(s)

\* the comparison with >= for ==: what C8 must notice
all_same_or_more_workspace_views(s) ==
    Cardinality(get_all_workspace_views(s)) >=
        Cardinality(get_current_workspace_views(s))

all_same_as_current_workspace_views(s) ==
    Cardinality(get_all_workspace_views(s)) =
        Cardinality(get_current_workspace_views(s))

\* views.front(): the host lists the views in stacking order, which is not part
\* of the state; pick is the view the host happens to list first
Front(views, pick) == IF pick \in views THEN pick ELSE Min(views)

\* output->focus_view(view, true)
focus_view(s, view) == [s EXCEPT !.active_view = view]

\* the workspaces of the host's grid (one row of them)
HostWorkspaces == 0..LastWorkspace

\* og.width: the output is OutputWidth wide, and so is every workspace
OutputWidth == 4

\* vg.x + vg.width / 2 of view->get_output_geometry(): geometry is relative
\* to the current workspace, a view on workspace w lies (w - cur_ws) outputs
\* to the right; the windows are centred on their workspace
CenterX(s, view) ==
    (s.view_ws[view] - s.cur_ws) * OutputWidth + OutputWidth \div 2

\* one axis of the point: ws.x + ((center.x - ws.x * og.width) / og.width)
get_view_main_workspace(s, view) ==
    LET root == IF Parent(view) # NULL THEN Parent(view) ELSE view
        ws == s.cur_ws
    IN ws + TruncDiv(CenterX(s, root) - ws * OutputWidth, OutputWidth)

\* ------------------------------------------------------------ hooks
set_hook(s) == [s EXCEPT !.hook_set = TRUE]

unset_hook(s) == [s EXCEPT !.hook_set = FALSE]

connect_button_signal(s) == [s EXCEPT !.button_connected = TRUE]

disconnect_button_signal(s) == [s EXCEPT !.button_connected = FALSE]

\* ------------------------------------------------------------ transformers
add_transformer_ret(s, view) == view # NULL /\ view \notin s.has_transformer

add_transformer(s, view) ==
    IF ~add_transformer_ret(s, view) THEN s
    ELSE LET s1 == Touch(s, view)
         IN [s1 EXCEPT !.scale_data[view].transformer = TRUE,
                       !.has_transformer = @ \cup {view},
                       !.geom_connected = @ \cup {view}]

pop_transformer(s, view) ==
    IF view = NULL THEN s
    ELSE [s EXCEPT !.has_transformer = @ \ {view}]

remove_transformers(s) ==
    [s EXCEPT !.has_transformer =
        @ \ UNION {{v} \cup Children(s, v) : v \in Slots(s)}]

\* ------------------------------------------------------------ fading
RECURSIVE fade_in(_, _)
fade_in(s, view) ==
    IF view = NULL THEN s
    ELSE LET s1 == Touch(s, view)
         IN IF ~s1.scale_data[view].transformer THEN s1
            ELSE LET s2 == [set_hook(s1) EXCEPT
                               !.scale_data[view].talpha = "one",
                               !.scale_data[view].anim = AnimTicks]
                 IN IF Children(s2, view) # {}
                    THEN fade_in(s2, Min(Children(s2, view)))
                    ELSE s2

RECURSIVE fade_out(_, _)
RECURSIVE fade_out_each(_, _)
fade_out_each(s, todo) ==
    IF todo = {} THEN s
    ELSE LET c == Min(todo)
         IN Then(s, fade_out_each(fade_out(s, c), todo \ {c}))

fade_out(s, view) ==
    IF view = NULL THEN s
    ELSE LET s1 == Touch(s, view)
         IN IF ~s1.scale_data[view].transformer THEN s1
            ELSE LET s2 == [set_hook(s1) EXCEPT
                               !.scale_data[view].talpha = "inactive",
                               !.scale_data[view].anim = AnimTicks]
                 IN fade_out_each(s2, Children(s2, view))

fade_out_all_except(s, view) ==
    fade_out_each(s,
        {v \in Slots(s) :
            ~ (\/ ~s.scale_data[v].transformer
               \/ v = view
               \/ (view # NULL /\ v = Parent(view))
               \/ Parent(v) = view)})

\* ------------------------------------------------------------ focus, removal
\* output->workspace->request_workspace(ws): the host switches to ws when
\* ws is a workspace of its grid and ignores the request when it is not
request_workspace(s, ws) ==
    IF ws \in HostWorkspaces THEN [s EXCEPT !.cur_ws = ws] ELSE s

select_view(s, view) ==
    IF view = NULL THEN s
    ELSE request_workspace(s, get_view_main_workspace(s, view))

check_focus_view(s, view) ==
    LET s1 == IF view = s.current_focus_view
              THEN [s EXCEPT !.current_focus_view = s.active_view]
              ELSE s
    IN IF view = s1.initial_focus_view
       THEN [s1 EXCEPT !.initial_focus_view = NULL]
       ELSE s1

\* check_focus_view, pop_transformer and scale_data.erase for one view
drop_view(s, view) ==
    [pop_transformer(check_focus_view(s, view), view)
        EXCEPT !.scale_data[view] = NoSlot]

RECURSIVE drop_each(_, _)
drop_each(s, todo) ==
    IF todo = {} THEN s
    ELSE LET c == Min(todo)
         IN Then(s, drop_each(drop_view(s, c), todo \ {c}))

\* remove_view() without the loop over view->children: what C5 must notice
remove_view_keeps_children(s, view) ==
    IF view = NULL THEN s ELSE drop_view(s, view)

remove_view(s, view) ==
    IF view = NULL THEN s
    ELSE drop_each(drop_view(s, view), Children(s, view))

\* ------------------------------------------------------------ animation targets
\* view_data.transformer->scale_x is read first: with a null transformer that
\* is a read through a null pointer
setup_view_transform(s, view, tscale, talpha) ==
    [s EXCEPT !.null_deref = @ \/ ~s.scale_data[view].transformer,
              !.scale_data[view].tscale = tscale,
              !.scale_data[view].talpha = talpha,
              !.scale_data[view].anim = AnimTicks]

\* for (auto& e : scale_data), from key `from` on, entries added on the way
\* included; the map is ordered by pointer, here by id (children after parents)
RECURSIVE animation_running_scan(_, _)
RECURSIVE children_running_scan(_, _)
children_running_scan(s, todo) ==
    IF todo = {} THEN [st |-> s, ret |-> FALSE]
    ELSE LET c == Min(todo)
             s1 == Touch(s, c)
         IN IF s1.scale_data[c].anim > 0 THEN [st |-> s1, ret |-> TRUE]
            ELSE children_running_scan(s1, todo \ {c})

animation_running_scan(s, from) ==
    LET rest == {v \in Slots(s) : v >= from}
    IN IF rest = {} THEN [st |-> s, ret |-> FALSE]
       ELSE IF s.scale_data[Min(rest)].anim > 0 THEN [st |-> s, ret |-> TRUE]
       ELSE LET c == children_running_scan(s, Children(s, Min(rest)))
            IN IF c.ret THEN c
               ELSE animation_running_scan(c.st, Min(rest) + 1)

\* returns the state too: scale_data[child] inserts entries
animation_running(s) == animation_running_scan(s, 1)

\* ------------------------------------------------------------ teardown
\* finalize() without disconnect_button_signal(): what C4 must notice
finalize_keeps_button_signal(s) ==
    LET s1 == remove_transformers(unset_hook(
                  [s EXCEPT !.active = FALSE,
                            !.input_release_impending = FALSE]))
    IN [s1 EXCEPT
            !.scale_data = [v \in DOMAIN @ |-> NoSlot],
            !.grabbed = FALSE,
            !.connected = {},
            !.geom_connected = {},
            !.plugin_active = FALSE]

\* finalize() without remove_transformers() and scale_data.clear(): the
\* session ends but the windows keep their records and transformers.
finalize_keeps_transformers(s) ==
    [disconnect_button_signal(unset_hook(
         [s EXCEPT !.active = FALSE, !.input_release_impending = FALSE]))
     EXCEPT !.grabbed = FALSE, !.connected = {}, !.geom_connected = {},
            !.plugin_active = FALSE]

finalize(s) ==
    LET s1 == remove_transformers(unset_hook(
                  [s EXCEPT !.active = FALSE,
                            !.input_release_impending = FALSE]))
    IN [disconnect_button_signal(s1) EXCEPT
            !.scale_data = [v \in DOMAIN @ |-> NoSlot],
            !.grabbed = FALSE,
            !.connected = {},
            !.geom_connected = {},
            !.plugin_active = FALSE]

finish_input(s) ==
    LET s1 == [s EXCEPT !.input_release_impending = FALSE, !.grabbed = FALSE]
        a == animation_running(s1)
    IN IF ~a.ret THEN finalize(a.st) ELSE a.st

refocus(s, pick) ==
    IF s.initial_focus_view = NULL THEN s
    ELSE IF s.current_focus_view # NULL
    THEN select_view(focus_view(s, s.current_focus_view), s.current_focus_view)
    ELSE LET views == get_current_workspace_views(s)
         IN focus_view(s, IF views = {} THEN NULL ELSE Front(views, pick))

RECURSIVE deactivate_scan(_, _)
deactivate_scan(s, from) ==
    LET rest == {v \in Slots(s) : v >= from}
    IN IF rest = {} THEN s
       ELSE deactivate_scan(
                setup_view_transform(fade_in(s, Min(rest)), Min(rest),
                                     "identity", "one"),
                Min(rest) + 1)

deactivate(s, pick) ==
    LET s1 == [set_hook([s EXCEPT !.active = FALSE]) EXCEPT
                  !.connected = @ \ {"view_focused", "view_unmapped",
                                     "view_attached", "view_minimized",
                                     "workspace_changed"},
                  !.geom_connected = {}]
        s2 == IF ~s1.input_release_impending
              THEN [s1 EXCEPT !.grabbed = FALSE, !.plugin_active = FALSE]
              ELSE s1
    IN refocus(deactivate_scan(s2, 1), pick)

\* ------------------------------------------------------------ grid
\* (int)sqrt(n): the largest r with r*r <= n
RECURSIVE IntSqrtFrom(_, _)
IntSqrtFrom(n, r) == IF (r + 1) * (r + 1) > n THEN r ELSE IntSqrtFrom(n, r + 1)

IntSqrt(n) == IntSqrtFrom(n, 0)

\* (int)std::ceil((double)n / d)
CeilDiv(n, d) == (n + d - 1) \div d

\* sqrt(views.size()) for sqrt(views.size() + 1): what C9 must notice
LinesOfCount(n) == IntSqrt(n)

Lines(n) == IntSqrt(n + 1)

GridCols(n) == CeilDiv(n, Lines(n))

GridLastRowCols(n) ==
    LET rest == n - (Lines(n) - 1) * GridCols(n)
    IN IF GridCols(n) < rest THEN GridCols(n) ELSE rest

\* the (i, j) of the two nested loops, in the order they run
RECURSIVE CellsFrom(_, _, _, _, _)
CellsFrom(i, j, lines, cols, lastcols) ==
    IF i >= lines THEN <<>>
    ELSE LET n == IF i = lines - 1 THEN lastcols ELSE cols
         IN IF j >= n THEN CellsFrom(i + 1, 0, lines, cols, lastcols)
            ELSE <<[row |-> i, col |-> j]>> \o
                 CellsFrom(i, j + 1, lines, cols, lastcols)

Cells(n) == CellsFrom(0, 0, Lines(n), GridCols(n), GridLastRowCols(n))

Max(S) == CHOOSE x \in S : \A y \in S : x >= y

\* the views sorted the other way round: what C10 must notice
RECURSIVE SortedDescending(_)
SortedDescending(S) ==
    IF S = {} THEN <<>> ELSE <<Max(S)>> \o SortedDescending(S \ {Max(S)})

\* std::sort(views.begin(), views.end()): ascending handles
RECURSIVE SortedSeq(_)
SortedSeq(S) ==
    IF S = {} THEN <<>> ELSE <<Min(S)>> \o SortedSeq(S \ {Min(S)})

\* ------------------------------------------------------------ layout
\* the body of the loop over view->children for one child
layout_child(s, child, cell, target_alpha) ==
    LET s1 == Touch(add_transformer(s, child), child)
        s2 == IF s1.active
              THEN setup_view_transform(s1, child, "cell", target_alpha)
              ELSE setup_view_transform(s1, child, "identity", "one")
    IN [s2 EXCEPT !.scale_data[child].row = cell.row,
                  !.scale_data[child].col = cell.col]

RECURSIVE layout_children(_, _, _, _)
layout_children(s, todo, cell, target_alpha) ==
    IF todo = {} THEN s
    ELSE LET c == Min(todo)
         IN Then(s, layout_children(layout_child(s, c, cell, target_alpha),
                                    todo \ {c}, cell, target_alpha))

\* the body of the inner loop for views[slots]
layout_view(s, view, cell, active_view_) ==
    LET s1 == Touch(add_transformer(s, view), view)
        target_alpha == IF s1.active
                        THEN (IF view = active_view_ THEN "one" ELSE "inactive")
                        ELSE "one"
        s2 == IF s1.active
              THEN setup_view_transform(s1, view, "cell", target_alpha)
              ELSE setup_view_transform(s1, view, "identity", "one")
        s3 == [s2 EXCEPT !.scale_data[view].row = cell.row,
                         !.scale_data[view].col = cell.col]
    IN layout_children(s3, Children(s3, view), cell, target_alpha)

RECURSIVE layout_loop(_, _, _, _, _)
layout_loop(s, sorted, cells, k, active_view_) ==
    IF k > Len(cells) \/ k > Len(sorted) THEN s
    ELSE Then(s, layout_loop(layout_view(s, sorted[k], cells[k], active_view_),
                             sorted, cells, k + 1, active_view_))

\* layout_slots() that sizes the grid by the number of slot records instead of
\* the number of views: what C11 must notice
layout_slots_counts_records(s, views, pick) ==
    IF views = {}
    THEN (IF ~s.all_workspaces /\ s.active THEN deactivate(s, pick) ELSE s)
    ELSE
    LET n == Cardinality(Slots(s))
        host_active == IF s.active_view # NULL /\ ~scale_view(s, s.active_view)
                       THEN NULL ELSE s.active_view
        active_view_ == IF host_active # NULL THEN host_active
                        ELSE Front(views, pick)
        s1 == [s EXCEPT !.current_focus_view = active_view_,
                        !.initial_focus_view =
                            IF @ = NULL THEN active_view_ ELSE @]
        s2 == IF s1.all_workspaces THEN focus_view(s1, active_view_) ELSE s1
        s3 == fade_out_all_except(fade_in(s2, active_view_), active_view_)
        s4 == [s3 EXCEPT !.grid_rows = Lines(n),
                         !.grid_cols = GridCols(n),
                         !.grid_last_row_cols = GridLastRowCols(n)]
    IN set_hook(layout_loop(s4, SortedSeq(views), Cells(n), 1, active_view_))

layout_slots(s, views, pick) ==
    IF views = {}
    THEN (IF ~s.all_workspaces /\ s.active THEN deactivate(s, pick) ELSE s)
    ELSE
    LET n == Cardinality(views)
        host_active == IF s.active_view # NULL /\ ~scale_view(s, s.active_view)
                       THEN NULL ELSE s.active_view
        active_view_ == IF host_active # NULL THEN host_active
                        ELSE Front(views, pick)
        s1 == [s EXCEPT !.current_focus_view = active_view_,
                        !.initial_focus_view =
                            IF @ = NULL THEN active_view_ ELSE @]
        s2 == IF s1.all_workspaces THEN focus_view(s1, active_view_) ELSE s1
        s3 == fade_out_all_except(fade_in(s2, active_view_), active_view_)
        s4 == [s3 EXCEPT !.grid_rows = Lines(n),
                         !.grid_cols = GridCols(n),
                         !.grid_last_row_cols = GridLastRowCols(n)]
    IN set_hook(layout_loop(s4, SortedSeq(views), Cells(n), 1, active_view_))

\* ------------------------------------------------------------ scope switch
RECURSIVE restore_not_found(_, _)
restore_not_found(s, todo) ==
    IF todo = {} THEN s
    ELSE LET v == Min(todo)
         IN Then(s, restore_not_found(
                        setup_view_transform(s, v, "identity", "one"),
                        todo \ {v}))

switch_scale_modes(s, pick) ==
    IF ~s.plugin_active THEN s
    ELSE IF s.all_workspaces THEN layout_slots(s, get_views(s), pick)
    ELSE LET not_found == Slots(s) \ get_views(s)
             s1 == restore_not_found(s, not_found)
         IN IF not_found # {} THEN layout_slots(s1, get_views(s1), pick)
            ELSE s1

\* ------------------------------------------------------------ activation
RECURSIVE fade_out_not_initial(_, _)
fade_out_not_initial(s, todo) ==
    IF todo = {} THEN s
    ELSE LET v == Min(todo)
         IN fade_out_not_initial(
                IF v = s.initial_focus_view \/ Parent(v) = s.initial_focus_view
                THEN s ELSE fade_out(s, v),
                todo \ {v})

\* grant: what the host grants, "all", "no_plugin" (activate_plugin refused)
\* or "no_grab" (grab refused)
activate(s, grant, pick) ==
    IF s.active THEN [st |-> s, ret |-> FALSE]
    ELSE IF ~s.plugin_active /\ grant = "no_plugin"
    THEN [st |-> s, ret |-> FALSE]
    ELSE
    LET s1 == [s EXCEPT !.plugin_active = TRUE]
    IN IF get_views(s1) = {}
       THEN [st |-> [s1 EXCEPT !.plugin_active = FALSE], ret |-> FALSE]
       ELSE
       LET s2 == [s1 EXCEPT !.initial_workspace = s1.cur_ws,
                            !.initial_focus_view = s1.active_view]
       IN IF ~s2.interact /\ grant = "no_grab"
          THEN [st |-> deactivate(s2, pick), ret |-> FALSE]
          ELSE
          LET s3 == IF ~s2.interact
                    THEN [(IF s2.initial_focus_view # NULL
                           THEN focus_view(s2, s2.initial_focus_view)
                           ELSE s2) EXCEPT !.grabbed = TRUE]
                    ELSE s2
              s4 == layout_slots([s3 EXCEPT !.active = TRUE],
                                 get_views(s3), pick)
              s5 == IF s4.interact THEN connect_button_signal(s4) ELSE s4
              s6 == [s5 EXCEPT
                        !.connected = @ \cup
                            {"view_attached", "view_detached",
                             "workspace_changed", "view_minimized",
                             "view_unmapped", "view_focused"},
                        !.geom_connected = {}]
              s7 == fade_out_not_initial(s6, Slots(s6))
          IN [st |-> [s7 EXCEPT !.geom_connected = Slots(s7)], ret |-> TRUE]

\* handle_toggle() that reports success whatever activate() returned: what
\* C7 must notice
handle_toggle_ignores_activate(s, want_all_workspaces, grant, pick) ==
    IF s.active /\ (\/ all_same_as_current_workspace_views(s)
                    \/ want_all_workspaces = s.all_workspaces)
    THEN [st |-> deactivate(s, pick), ret |-> TRUE]
    ELSE LET s1 == [s EXCEPT !.all_workspaces = want_all_workspaces]
         IN IF s1.active
            THEN [st |-> switch_scale_modes(s1, pick), ret |-> TRUE]
            ELSE [st |-> activate(s1, grant, pick).st, ret |-> TRUE]

handle_toggle(s, want_all_workspaces, grant, pick) ==
    IF s.active /\ (\/ all_same_as_current_workspace_views(s)
                    \/ want_all_workspaces = s.all_workspaces)
    THEN [st |-> deactivate(s, pick), ret |-> TRUE]
    ELSE LET s1 == [s EXCEPT !.all_workspaces = want_all_workspaces]
         IN IF s1.active
            THEN [st |-> switch_scale_modes(s1, pick), ret |-> TRUE]
            ELSE activate(s1, grant, pick)

\* ------------------------------------------------------------ input
is_mapped(s, v) == s.status[v] \in {"mapped", "minimized"}

minimized(s, v) == s.status[v] = "minimized"

Root(v) == IF Parent(v) # NULL THEN Parent(v) ELSE v

\* get_views() in the order the host lists them: pick first when it is there
RECURSIVE find_view_scan(_, _, _, _)
find_view_scan(s, order, row, col) ==
    IF order = <<>> THEN [st |-> s, ret |-> NULL]
    ELSE LET v == Head(order)
             s1 == Touch(s, v)
         IN IF s1.scale_data[v].row = row /\ s1.scale_data[v].col = col
            THEN [st |-> s1, ret |-> v]
            ELSE find_view_scan(s1, Tail(order), row, col)

\* get_views().front() of an empty list reads through a null pointer
find_view_in_grid(s, row, col, pick) ==
    LET views == get_views(s)
        order == IF pick \in views
                 THEN <<pick>> \o SortedSeq(views \ {pick})
                 ELSE SortedSeq(views)
        f == find_view_scan(s, order, row, col)
    IN IF f.ret # NULL THEN f
       ELSE IF views = {}
       THEN [st |-> [f.st EXCEPT !.null_deref = TRUE], ret |-> NULL]
       ELSE [st |-> f.st, ret |-> Front(views, pick)]

Clamp(x, lo, hi) == IF x < lo THEN lo ELSE IF x > hi THEN hi ELSE x

\* process_key() without the column mapping of lines 586-605: what C25 must
\* notice
NavCellSameColumn(s, key, row0, col0) ==
    LET row1 == CASE key = "up" -> row0 - 1
                  [] key = "down" -> row0 + 1
                  [] OTHER -> row0
        col1 == CASE key = "left" -> col0 - 1
                  [] key = "right" -> col0 + 1
                  [] OTHER -> col0
        row2 == IF row1 < 0 THEN s.grid_rows - 1
                ELSE IF row1 >= s.grid_rows THEN 0 ELSE row1
        current_row_cols == IF row2 = s.grid_rows - 1
                            THEN s.grid_last_row_cols ELSE s.grid_cols
        col3 == IF col1 < 0 THEN current_row_cols - 1
                ELSE IF col1 >= current_row_cols THEN 0 ELSE col1
    IN [row |-> row2, col |-> col3]

\* the cell an arrow key moves to from (row0, col0)
NavCell(s, key, row0, col0) ==
    LET row1 == CASE key = "up" -> row0 - 1
                  [] key = "down" -> row0 + 1
                  [] OTHER -> row0
        col1 == CASE key = "left" -> col0 - 1
                  [] key = "right" -> col0 + 1
                  [] OTHER -> col0
        col2 == IF s.grid_rows > 1 /\ s.grid_cols > 1 /\ s.grid_last_row_cols > 1
                THEN IF \/ (key = "down" /\ row1 = s.grid_rows - 1)
                        \/ (key = "up" /\ row1 = -1)
                     THEN Clamp((col1 * (s.grid_last_row_cols - 1))
                                    \div (s.grid_cols - 1),
                                0, s.grid_last_row_cols - 1)
                     ELSE IF \/ (key = "up" /\ row1 = s.grid_rows - 2)
                             \/ (key = "down" /\ row1 = s.grid_rows)
                     THEN Clamp(((2 * col1 + 1) * s.grid_cols)
                                    \div (2 * s.grid_last_row_cols),
                                0, s.grid_cols - 1)
                     ELSE col1
                ELSE col1
        row2 == IF row1 < 0 THEN s.grid_rows - 1
                ELSE IF row1 >= s.grid_rows THEN 0 ELSE row1
        current_row_cols == IF row2 = s.grid_rows - 1
                            THEN s.grid_last_row_cols ELSE s.grid_cols
        col3 == IF col2 < 0 THEN current_row_cols - 1
                ELSE IF col2 >= current_row_cols THEN 0 ELSE col2
    IN [row |-> row2, col |-> col3]

Arrows == {"up", "down", "left", "right"}
\* "other": any other key, or any key pressed with a modifier held
Keys == Arrows \cup {"enter", "esc", "other"}

process_key(s, key, pressed, pick) ==
    IF ~s.active THEN finish_input(s)
    ELSE IF s.active_view = NULL
    THEN LET view == s.current_focus_view
         IN focus_view(fade_in(fade_out_all_except(s, view), view), view)
    ELSE IF ~scale_view(s, s.active_view) /\ Role(s.active_view) # "toplevel"
    THEN s
    ELSE
    LET view == s.active_view
        s1 == Touch(s, view)
        s2 == IF ~pressed /\ key \in {"enter", "esc"}
              THEN [s1 EXCEPT !.input_release_impending = FALSE] ELSE s1
    IN IF ~pressed THEN s2
       ELSE IF key = "enter"
       THEN LET d == deactivate(
                         [s2 EXCEPT !.input_release_impending = TRUE], pick)
            IN select_view(d, d.current_focus_view)
       ELSE IF key = "esc"
       THEN LET v == s2.initial_focus_view
                d == deactivate(
                         [s2 EXCEPT !.input_release_impending = TRUE,
                                    !.initial_focus_view = NULL], pick)
            IN request_workspace(focus_view(d, v), d.initial_workspace)
       ELSE IF key \notin Arrows THEN s2
       ELSE
       LET cell == NavCell(s2, key, s2.scale_data[view].row,
                           s2.scale_data[view].col)
           f == find_view_in_grid(s2, cell.row, cell.col, pick)
           s3 == IF f.ret # NULL /\ f.st.current_focus_view # f.ret
                 THEN fade_out_all_except(f.st, f.ret) ELSE f.st
       IN IF f.ret = NULL THEN s3
          ELSE fade_in(focus_view(
                   [s3 EXCEPT !.current_focus_view = f.ret], f.ret), f.ret)

\* "other": BTN_MIDDLE (which at most asks the host to close the view) or any
\* further button
Buttons == {"left", "other"}

\* view: the view under the cursor, or NULL
process_button(s, button, pressed, view, pick) ==
    IF ~s.active THEN finish_input(s)
    ELSE
    LET s1 == IF button = "left" \/ ~pressed
              THEN [s EXCEPT !.input_release_impending = FALSE] ELSE s
    IN IF ~pressed THEN s1
       ELSE IF button # "left" THEN s1
       ELSE IF view = NULL THEN s1
       ELSE IF ~scale_view(s1, view) /\ Role(view) # "toplevel" THEN s1
       ELSE
       LET s2 == fade_in(fade_out_all_except(
                     focus_view([s1 EXCEPT !.current_focus_view = view], view),
                     view), view)
       IN IF s2.interact THEN s2
          ELSE select_view(
                   deactivate([s2 EXCEPT !.input_release_impending = TRUE,
                                         !.initial_focus_view = NULL], pick),
                   view)

\* ------------------------------------------------------------ option callbacks
interact_option_changed(s) ==
    IF ~s.plugin_active THEN s
    ELSE IF s.interact THEN connect_button_signal(s)
    ELSE disconnect_button_signal([s EXCEPT !.grabbed = TRUE])

allow_scale_zoom_option_changed(s, pick) ==
    IF ~s.plugin_active THEN s
    ELSE layout_slots(s, get_views(s), pick)

\* ------------------------------------------------------------ signal handlers
view_attached(s, view, pick) ==
    IF Parent(view) # NULL /\ s.scale_data[Parent(view)].present
    THEN layout_slots(s, get_views(s), pick)
    ELSE IF ~scale_view(s, view) /\ Role(view) # "toplevel" THEN s
    ELSE
    LET v == Root(view)
        s1 == focus_view([s EXCEPT !.current_focus_view = v], v)
    IN IF s1.scale_data[view].present
       THEN (IF view \notin s1.has_transformer
             THEN layout_slots(s1, get_views(s1), pick) ELSE s1)
       ELSE LET s2 == add_transformer(s1, view)
            IN layout_slots(s2, get_views(s2), pick)

view_detached(s, view, pick) ==
    IF Parent(view) # NULL /\ s.scale_data[Parent(view)].present
    THEN LET s1 == remove_view(s, view)
         IN IF get_views(s1) = {} THEN finalize(s1) ELSE s1
    ELSE IF ~s.scale_data[view].present THEN s
    ELSE LET s1 == remove_view(s, view)
         IN IF get_views(s1) = {} THEN finalize(s1)
            ELSE layout_slots(s1, get_views(s1), pick)

workspace_changed(s) ==
    IF s.current_focus_view # NULL
    THEN focus_view(s, s.current_focus_view) ELSE s

view_geometry_changed(s, pick) ==
    IF get_views(s) = {} THEN deactivate(s, pick)
    ELSE layout_slots(s, get_views(s), pick)

\* state: ev->state, TRUE when the view was minimized
view_minimized(s, view, state, pick) ==
    IF state
    THEN LET s1 == remove_view(s, view)
         IN IF Slots(s1) = {} THEN deactivate(s1, pick)
            ELSE layout_slots(s1, get_views(s1), pick)
    ELSE IF ~scale_view(s, view) THEN s
    ELSE layout_slots(s, get_views(s), pick)

view_unmapped(s, view) == check_focus_view(s, view)

view_focused(s, view, pick) ==
    LET s1 == fade_in(fade_out_all_except(s, view), view)
        cfv == s1.current_focus_view
    IN IF view = cfv \/ (view # NULL /\ view = s1.active_view)
       THEN IF view # NULL /\ cfv # NULL /\ view # cfv
            THEN LET v == Root(cfv)
                 IN IF v = view \/ minimized(s1, v) \/ ~is_mapped(s1, v)
                    THEN s1
                    ELSE focus_view([s1 EXCEPT !.current_focus_view = v], v)
            ELSE s1
       ELSE IF cfv = NULL \/ minimized(s1, cfv) \/ ~is_mapped(s1, cfv)
       THEN s1
       ELSE LET s2 == IF s1.all_workspaces THEN focus_view(s1, cfv) ELSE s1
            IN layout_slots(s2, get_views(s2), pick)

\* ------------------------------------------------------------ frame hooks
\* one frame of animation time passes for every running animation
advance_frame(s) ==
    [s EXCEPT !.scale_data =
        [v \in DOMAIN @ |-> [@[v] EXCEPT !.anim = IF @ > 0 THEN @ - 1 ELSE 0]]]

\* post_hook() that finalizes whenever no animation runs, without the test of
\* `active`: what C21 must notice
post_hook_finalizes(s) ==
    LET a == animation_running(s)
    IN IF a.ret THEN a.st ELSE finalize(unset_hook(a.st))

post_hook(s) ==
    LET a == animation_running(s)
    IN IF a.ret THEN a.st
       ELSE LET s1 == unset_hook(a.st)
            IN IF s1.active THEN s1 ELSE finalize(s1)

\* ------------------------------------------------------------ layout geometry
\* The arithmetic of layout_slots() on numbers.  A scale factor is the exact
\* quotient num / den of two integers (den > 0), kept as a pair.

\* std::min of two quotients
RatMin(p, q) == IF p.num * q.den <= q.num * p.den THEN p ELSE q

\* height = (workarea.height - (lines + 1) * (int)spacing) / lines
CellHeight(workarea, spacing, lines) ==
    TruncDiv(workarea.height - (lines + 1) * spacing, lines)

\* width = (workarea.width - (n + 1) * (int)spacing) / n
CellWidth(workarea, spacing, n) ==
    TruncDiv(workarea.width - (n + 1) * spacing, n)

\* the cell of row i, column j of a grid over count windows: x and y as the
\* loops have advanced them
CellRect(workarea, spacing, count, i, j) ==
    LET lines == Lines(count)
        n == IF i = lines - 1 THEN GridLastRowCols(count) ELSE GridCols(count)
        width == CellWidth(workarea, spacing, n)
        height == CellHeight(workarea, spacing, lines)
    IN [x |-> workarea.x + spacing + j * (width + spacing),
        y |-> workarea.y + spacing + i * (height + spacing),
        width |-> width, height |-> height]

\* max_scale_factor
MaxScaleFactor == [num |-> 1, den |-> 1]

\* scale_x = scale_y and the int translation_x, translation_y of a view with
\* geometry vg in the cell
SlotTarget(cell, vg, allow_scale_zoom) ==
    LET fit == RatMin([num |-> cell.width, den |-> vg.width],
                      [num |-> cell.height, den |-> vg.height])
    IN [scale |-> IF allow_scale_zoom THEN fit ELSE RatMin(fit, MaxScaleFactor),
        translation_x |->
            TruncDiv(2 * (cell.x - vg.x) + (cell.width - vg.width), 2),
        translation_y |->
            TruncDiv(2 * (cell.y - vg.y) + (cell.height - vg.height), 2)]

\* one pass over the sorted views: for each its cell and its target
LayoutGeometry(workarea, spacing, allow_scale_zoom, wm) ==
    [k \in 1..Len(wm) |->
        LET at == Cells(Len(wm))[k]
            cell == CellRect(workarea, spacing, Len(wm), at.row, at.col)
        IN [cell |-> cell,
            target |-> SlotTarget(cell, wm[k], allow_scale_zoom)]]

\* no layout arithmetic is followed: the value of geom outside SpecGeom
NoGeom == [workarea |-> [x |-> 0, y |-> 0, width |-> 0, height |-> 0],
           spacing |-> 0, allow_scale_zoom |-> FALSE, wm |-> <<>>,
           slots |-> <<>>]

\* ------------------------------------------------------------ initial state
\* after init(): the flags are cleared and the views are null.  The grid
\* fields, initial_workspace and all_workspaces are not written by init() and
\* are not read before a toggle writes them.
InitPlugin ==
    /\ active = FALSE /\ hook_set = FALSE /\ button_connected = FALSE
    /\ input_release_impending = FALSE
    /\ all_workspaces = FALSE
    /\ initial_workspace = 0
    /\ initial_focus_view = NULL /\ current_focus_view = NULL
    /\ grid_rows = 0 /\ grid_cols = 0 /\ grid_last_row_cols = 0
    /\ connected = {} /\ geom_connected = {}
    /\ plugin_active = FALSE /\ grabbed = FALSE /\ has_transformer = {}
    /\ null_deref = FALSE /\ crashed = FALSE

\* The plugin is loaded into a host that already shows some windows: each
\* window of `tops` is absent or mapped on some workspace, a child only with
\* its parent, the focus on a mapped window or on none.
InitHost(tops, kids) ==
    /\ status \in [tops \cup kids -> {"gone", "mapped"}]
    /\ scale_data = [v \in tops \cup kids |-> NoSlot]
    /\ \A c \in kids : status[c] = "mapped" => status[Parent(c)] = "mapped"
    /\ view_ws \in [tops \cup kids -> Workspaces]
    /\ \A v \in tops \cup kids :
           (status[v] = "gone" \/ v \in kids) => view_ws[v] = 0
    /\ cur_ws = 0
    /\ active_view \in {NULL} \cup {v \in tops \cup kids : status[v] = "mapped"}

\* Spec: two top-level windows on two workspaces, the grab always taken
\* (interact off), every input and at most CoreHostEvents windows leaving
Init ==
    /\ InitPlugin
    /\ interact = FALSE
    /\ InitHost(MainViews, {})
    /\ host_events = CoreHostEvents
    /\ geom = NoGeom

\* ------------------------------------------------------------ steps
Alive == ~crashed

\* the state a callback starts from
Entry == [St EXCEPT !.null_deref = FALSE]

\* Nothing of a session is left: the next thing to run is a toggle
TornDown(s) ==
    /\ ~s.active /\ Slots(s) = {} /\ s.has_transformer = {}
    /\ ~s.hook_set /\ ~s.grabbed /\ ~s.plugin_active /\ ~s.button_connected
    /\ s.connected = {} /\ s.geom_connected = {}
    /\ ~s.input_release_impending

\* Fields the code writes again before it can read them are held at a fixed
\* value: the grid fields and initial_workspace are read only by process_key
\* of an active session and written by activate() and layout_slots() before;
\* all_workspaces and initial_focus_view of a torn-down session are written by
\* handle_toggle() and activate() before anything reads them.
Observable(s) ==
    LET s1 == IF ~s.active
              THEN [s EXCEPT !.grid_rows = 0, !.grid_cols = 0,
                             !.grid_last_row_cols = 0,
                             !.initial_workspace = 0]
              ELSE s
    IN IF TornDown(s1)
       THEN [s1 EXCEPT !.all_workspaces = FALSE, !.initial_focus_view = NULL]
       ELSE s1

\* Control returns to the host in state r; a handler that read through a null
\* pointer may instead have died there (crashed: nothing runs any more).
Commit(r, structural) ==
    \E n \in {Observable([r EXCEPT !.null_deref = die]) :
                die \in (IF r.null_deref THEN BOOLEAN ELSE {FALSE})} :
           /\ crashed' = n.null_deref
           /\ host_events' = host_events - (IF structural THEN 1 ELSE 0)
           /\ active' = n.active
           /\ hook_set' = n.hook_set
           /\ button_connected' = n.button_connected
           /\ input_release_impending' = n.input_release_impending
           /\ all_workspaces' = n.all_workspaces
           /\ initial_workspace' = n.initial_workspace
           /\ initial_focus_view' = n.initial_focus_view
           /\ current_focus_view' = n.current_focus_view
           /\ grid_rows' = n.grid_rows
           /\ grid_cols' = n.grid_cols
           /\ grid_last_row_cols' = n.grid_last_row_cols
           /\ scale_data' = n.scale_data
           /\ connected' = n.connected
           /\ geom_connected' = n.geom_connected
           /\ interact' = n.interact
           /\ status' = n.status
           /\ view_ws' = n.view_ws
           /\ cur_ws' = n.cur_ws
           /\ active_view' = n.active_view
           /\ plugin_active' = n.plugin_active
           /\ grabbed' = n.grabbed
           /\ has_transformer' = n.has_transformer
           /\ null_deref' = n.null_deref
           /\ geom' = geom

\* the views the host may list first: the mapped top-level ones
Picks == IF get_all_workspace_views(St) = {} THEN {1}
         ELSE get_all_workspace_views(St)

Grants == {"all", "no_plugin", "no_grab"}

\* what the host grants matters to activate() alone
ToggleGrants == IF active THEN {"all"} ELSE Grants

\* the host may still bring a structural event
Budget == host_events > 0

\* toggle_cb (all = FALSE) and toggle_all_cb (all = TRUE)
Toggle(all, grant, pick) ==
    /\ Alive
    /\ LET r == handle_toggle(Entry, all, grant, pick)
       IN Commit(r.st, FALSE)

\* the key events that differ for process_key: a release of any other key is
\* the release of "other"
KeyEvents == {<<k, TRUE>> : k \in Keys} \cup
             {<<"enter", FALSE>>, <<"esc", FALSE>>, <<"other", FALSE>>}

\* grab_interface->callbacks.keyboard.key: delivered while the grab is held
Key(key, pressed, pick) ==
    /\ Alive /\ grabbed
    /\ Commit(process_key(Entry, key, pressed, pick), FALSE)

\* callbacks.pointer.button while grabbed, on_button_event while connected;
\* view is what get_view_at finds under the cursor: a view that is shown, on
\* the current workspace or brought onto the screen by its transformer
Button(button, pressed, view, pick) ==
    /\ Alive /\ (grabbed \/ button_connected)
    /\ view # NULL => /\ status[view] = "mapped"
                      /\ \/ view_ws[Root(view)] = cur_ws
                         \/ view \in has_transformer
    /\ (~pressed \/ button # "left") => view = NULL
    /\ Commit(process_button(Entry, button, pressed, view, pick), FALSE)

\* "view-attached": a view joins the output (a top-level one not yet mapped)
ViewAttached(v, w, pick) ==
    /\ Alive /\ Budget /\ status[v] = "gone"
    /\ v \in ChildViews => (w = 0 /\ status[Parent(v)] # "gone")
    /\ LET h == [Entry EXCEPT
                    !.status[v] = IF v \in ChildViews THEN "mapped" ELSE "unmapped",
                    !.view_ws[v] = w]
       IN Commit(IF "view_attached" \in connected
                 THEN view_attached(h, v, pick) ELSE h, TRUE)

\* "view-layer-attached": a top-level view is mapped into the workspace layer
ViewLayerAttached(v, pick) ==
    /\ Alive /\ Budget /\ v \in Toplevels /\ status[v] = "unmapped"
    /\ LET h == [Entry EXCEPT !.status[v] = "mapped"]
       IN Commit(IF "view_attached" \in connected
                 THEN view_attached(h, v, pick) ELSE h, TRUE)

\* "view-layer-detached": the view leaves the output
ViewDetached(v, pick) ==
    /\ Alive /\ Budget /\ status[v] # "gone"
    /\ LET h == [Entry EXCEPT !.status[v] = "gone", !.view_ws[v] = 0]
       IN Commit(IF "view_detached" \in connected
                 THEN view_detached(h, v, pick) ELSE h, TRUE)

\* "view-unmapped"
ViewUnmapped(v) ==
    /\ Alive /\ Budget /\ v \in Toplevels /\ status[v] = "mapped"
    /\ LET h == [Entry EXCEPT !.status[v] = "unmapped"]
       IN Commit(IF "view_unmapped" \in connected
                 THEN view_unmapped(h, v) ELSE h, TRUE)

\* "view-minimized", state = TRUE: the view has left the workspace layer
ViewMinimized(v, pick) ==
    /\ Alive /\ Budget /\ v \in Toplevels /\ status[v] = "mapped"
    /\ LET h == [Entry EXCEPT !.status[v] = "minimized"]
       IN Commit(IF "view_minimized" \in connected
                 THEN view_minimized(h, v, TRUE, pick) ELSE h, TRUE)

\* "view-minimized", state = FALSE
ViewRestored(v, pick) ==
    /\ Alive /\ Budget /\ v \in Toplevels /\ status[v] = "minimized"
    /\ LET h == [Entry EXCEPT !.status[v] = "mapped"]
       IN Commit(IF "view_minimized" \in connected
                 THEN view_minimized(h, v, FALSE, pick) ELSE h, TRUE)

\* "geometry-changed" of a view: it is resized, or moved to workspace w
GeometryChanged(v, w, pick) ==
    /\ Alive /\ Budget /\ v \in Toplevels /\ status[v] # "gone"
    /\ LET h == [Entry EXCEPT !.view_ws[v] = w]
       IN Commit(IF v \in geom_connected
                 THEN view_geometry_changed(h, pick) ELSE h, TRUE)

\* the host switches workspace: the views' geometry changes, then
\* "workspace-changed"
WorkspaceChanged(w, pick) ==
    /\ Alive /\ Budget /\ w # cur_ws
    /\ LET h == [Entry EXCEPT !.cur_ws = w]
           g == IF \E v \in h.geom_connected : h.status[v] # "gone"
                THEN view_geometry_changed(h, pick) ELSE h
       IN Commit(IF "workspace_changed" \in g.connected
                 THEN workspace_changed(g) ELSE g, TRUE)

\* "view-focused": the host gives the focus to v (NULL: to no view)
ViewFocused(v, pick) ==
    /\ Alive /\ v # active_view /\ (v # NULL => status[v] = "mapped")
    /\ LET h == [Entry EXCEPT !.active_view = v]
       IN Commit(IF "view_focused" \in connected
                 THEN view_focused(h, v, pick) ELSE h, FALSE)

\* one rendered frame: pre_hook (transform_views) and post_hook
Tick ==
    /\ Alive /\ hook_set
    /\ \E s \in {advance_frame(Entry)} : \E r \in {post_hook(s)} :
           Commit(r, FALSE)

InteractOption ==
    /\ Alive
    /\ Commit(interact_option_changed([Entry EXCEPT !.interact = ~interact]), FALSE)

AllowScaleZoomOption(pick) ==
    /\ Alive /\ plugin_active
    /\ Commit(allow_scale_zoom_option_changed(Entry, pick), FALSE)

\* fini() ends the session; the plugin is then loaded again (a new object,
\* init()), the host and the options being what they were
reload(s) ==
    [finalize(s) EXCEPT !.current_focus_view = NULL,
                        !.initial_focus_view = NULL,
                        !.all_workspaces = FALSE]

Fini ==
    /\ Alive
    /\ Commit(reload(Entry), FALSE)

Next ==
    \/ \E all \in BOOLEAN, grant \in ToggleGrants, pick \in Picks :
           Toggle(all, grant, pick)
    \/ \E k \in KeyEvents, pick \in Picks : Key(k[1], k[2], pick)
    \/ \E button \in Buttons, pressed \in BOOLEAN,
          view \in MainViews \cup {NULL}, pick \in Picks :
           Button(button, pressed, view, pick)
    \/ \E v \in MainViews, pick \in Picks : ViewDetached(v, pick)
    \/ \E v \in MainViews : ViewUnmapped(v)
    \/ \E v \in MainViews, pick \in Picks : ViewMinimized(v, pick)
    \/ \E v \in MainViews \cup {NULL}, pick \in Picks : ViewFocused(v, pick)
    \/ Tick
    \/ \E pick \in Picks : AllowScaleZoomOption(pick)
    \/ Fini

Spec == Init /\ [][Next]_vars

\* the render loop runs the frame hooks for as long as they are attached
FairSpec == Init /\ [][Next]_vars /\ WF_vars(Tick)

\* SpecHost: the same windows and a child window of window 1, the host's
\* structural events (at most HostEvents of them), toggles and frames
InitHost2 ==
    /\ InitPlugin
    /\ interact = FALSE
    /\ InitHost(MainViews, ChildViews)
    /\ host_events = HostEvents
    /\ geom = NoGeom

NextHost ==
    \/ \E all \in BOOLEAN, pick \in Picks : Toggle(all, "all", pick)
    \/ \E v \in FamilyViews, w \in Workspaces, pick \in Picks :
           ViewAttached(v, w, pick)
    \/ \E v \in MainViews, pick \in Picks : ViewLayerAttached(v, pick)
    \/ \E v \in FamilyViews, pick \in Picks : ViewDetached(v, pick)
    \/ \E v \in MainViews : ViewUnmapped(v)
    \/ \E v \in MainViews, pick \in Picks : ViewMinimized(v, pick)
    \/ \E v \in MainViews, pick \in Picks : ViewRestored(v, pick)
    \/ \E v \in MainViews, w \in Workspaces, pick \in Picks :
           GeometryChanged(v, w, pick)
    \/ \E w \in Workspaces, pick \in Picks : WorkspaceChanged(w, pick)
    \/ Tick
    \/ \E pick \in Picks : AllowScaleZoomOption(pick)
    \/ Fini

SpecHost == InitHost2 /\ [][NextHost]_vars

\* SpecInput: the same windows and the child window, none of them coming or
\* going; interaction passthrough on or off and switched while running,
\* toggles, keys, buttons and frames
InitInput ==
    /\ InitPlugin
    /\ interact \in BOOLEAN
    /\ InitHost(MainViews, ChildViews)
    /\ host_events = 0
    /\ geom = NoGeom

NextInput ==
    \/ \E all \in BOOLEAN, grant \in ToggleGrants, pick \in Picks :
           Toggle(all, grant, pick)
    \/ \E k \in KeyEvents, pick \in Picks : Key(k[1], k[2], pick)
    \/ \E button \in Buttons, pressed \in BOOLEAN,
          view \in FamilyViews \cup {NULL}, pick \in Picks :
           Button(button, pressed, view, pick)
    \/ Tick
    \/ InteractOption
    \/ Fini

SpecInput == InitInput /\ [][NextInput]_vars

\* SpecGrid: any set of the NumTop top-level windows (and the child window)
\* on one workspace, the host listing the lowest handle first; toggles,
\* frames and at most GridHostEvents windows leaving
InitGrid ==
    /\ InitPlugin
    /\ interact = FALSE
    /\ InitHost(Toplevels, ChildViews)
    /\ \A v \in Views : view_ws[v] = 0
    /\ active_view = NULL
    /\ host_events = GridHostEvents
    /\ geom = NoGeom

GridPicks == {Min(Picks)}

NextGrid ==
    \/ \E all \in BOOLEAN, pick \in GridPicks : Toggle(all, "all", pick)
    \/ \E v \in Views, pick \in GridPicks : ViewDetached(v, pick)
    \/ \E v \in Toplevels, pick \in GridPicks : ViewMinimized(v, pick)
    \/ Tick

SpecGrid == InitGrid /\ [][NextGrid]_vars

\* SpecNav: the first k of the NumTop top-level windows on one workspace, the
\* grab always taken; toggles, arrow keys, frames and at most GridHostEvents
\* windows unmapped
InitNav ==
    /\ InitPlugin
    /\ interact = FALSE
    /\ InitHost(Toplevels, {})
    /\ \A v \in Toplevels : view_ws[v] = 0
    /\ \E k \in 0..NumTop : \A v \in Toplevels : status[v] = "mapped" <=> v <= k
    /\ active_view = NULL
    /\ host_events = GridHostEvents
    /\ geom = NoGeom

NextNav ==
    \/ \E all \in BOOLEAN, pick \in GridPicks : Toggle(all, "all", pick)
    \/ \E key \in Arrows, pick \in GridPicks : Key(key, TRUE, pick)
    \/ \E v \in Toplevels : ViewUnmapped(v)
    \/ Tick

SpecNav == InitNav /\ [][NextNav]_vars

\* SpecSelect: the two top-level windows on any of three workspaces, the host
\* on any of them when the plugin is loaded, interaction passthrough on or
\* off; toggles (the host may refuse them), keys, buttons, focus changes,
\* frames and at most CoreHostEvents windows leaving
InitSelect ==
    /\ InitPlugin
    /\ interact \in BOOLEAN
    /\ status \in [MainViews -> {"gone", "mapped"}]
    /\ scale_data = [v \in MainViews |-> NoSlot]
    /\ view_ws \in [MainViews -> HostWorkspaces]
    /\ \A v \in MainViews : status[v] = "gone" => view_ws[v] = 0
    /\ cur_ws \in HostWorkspaces
    /\ active_view \in {NULL} \cup {v \in MainViews : status[v] = "mapped"}
    /\ host_events = CoreHostEvents
    /\ geom = NoGeom

NextSelect ==
    \/ \E all \in BOOLEAN, grant \in ToggleGrants, pick \in Picks :
           Toggle(all, grant, pick)
    \/ \E k \in KeyEvents, pick \in Picks : Key(k[1], k[2], pick)
    \/ \E button \in Buttons, pressed \in BOOLEAN,
          view \in MainViews \cup {NULL}, pick \in Picks :
           Button(button, pressed, view, pick)
    \/ \E v \in MainViews, pick \in Picks : ViewDetached(v, pick)
    \/ \E v \in MainViews \cup {NULL}, pick \in Picks : ViewFocused(v, pick)
    \/ Tick

SpecSelect == InitSelect /\ [][NextSelect]_vars

\* SpecGeom: the arithmetic of layout_slots() alone.  A workarea, a spacing
\* and the zoom option are drawn; windows of drawn geometries are mapped one
\* after the other (each after the ones before it in the sorted list), every
\* change followed by the layout pass over the windows there are.
Workareas ==
    [x : {0, 2}, y : {0}, width : {GeomSpan - 1, GeomSpan},
     height : {GeomSpan - 1, GeomSpan}]

Spacings == {0, 1}

\* view->get_wm_geometry() of a mapped window: smaller than, as large as or
\* larger than the workarea
WmGeometries ==
    [x : {0, 3}, y : {0},
     width : {GeomSpan \div 2, GeomSpan, GeomSpan + 1},
     height : {GeomSpan \div 2, GeomSpan + 1}]

InitGeom ==
    /\ InitPlugin
    /\ interact = FALSE
    /\ InitHost({}, {})
    /\ host_events = 0
    /\ geom \in {[NoGeom EXCEPT !.workarea = w, !.spacing = sp,
                                !.allow_scale_zoom = z] :
                    w \in Workareas, sp \in Spacings, z \in BOOLEAN}

\* the layout pass over the windows of g
GeomRelayout(g) ==
    /\ geom' = [g EXCEPT !.slots = LayoutGeometry(g.workarea, g.spacing,
                                                  g.allow_scale_zoom, g.wm)]
    /\ UNCHANGED <<active, hook_set, button_connected, input_release_impending,
                   all_workspaces, initial_workspace, initial_focus_view,
                   current_focus_view, grid_rows, grid_cols,
                   grid_last_row_cols, scale_data, connected, geom_connected,
                   interact, status, view_ws, cur_ws, active_view,
                   plugin_active, grabbed, has_transformer, host_events,
                   null_deref, crashed>>

\* a window of geometry vg is mapped
GeomViewMapped(vg) ==
    /\ Len(geom.wm) < GeomViews
    /\ GeomRelayout([geom EXCEPT !.wm = Append(@, vg)])

\* the last window is unmapped
GeomViewUnmapped ==
    /\ geom.wm # <<>>
    /\ GeomRelayout([geom EXCEPT !.wm = SubSeq(@, 1, Len(@) - 1)])

\* scale/allow_zoom changes
GeomAllowScaleZoom ==
    /\ geom.wm # <<>>
    /\ GeomRelayout([geom EXCEPT !.allow_scale_zoom = ~@])

NextGeom ==
    \/ \E vg \in WmGeometries : GeomViewMapped(vg)
    \/ GeomViewUnmapped
    \/ GeomAllowScaleZoom

SpecGeom == InitGeom /\ [][NextGeom]_vars

\* SpecCancel: as SpecSelect with the grab always granted, and every session
\* is started while window FirstFocus holds the host focus, so that the
\* window focused at activation is known in every state of a session; during
\* the session the focus moves, keys arrive, windows leave, are minimized
\* and restored and the host changes workspace (HostEvents such events)
FirstFocus == Min(MainViews)

InitCancel ==
    /\ InitPlugin
    /\ interact = FALSE
    /\ status \in [MainViews -> {"gone", "mapped"}]
    /\ scale_data = [v \in MainViews |-> NoSlot]
    /\ view_ws \in [MainViews -> HostWorkspaces]
    /\ \A v \in MainViews : status[v] = "gone" => view_ws[v] = 0
    /\ cur_ws \in HostWorkspaces
    /\ active_view \in {NULL} \cup {v \in MainViews : status[v] = "mapped"}
    /\ host_events = HostEvents
    /\ geom = NoGeom

NextCancel ==
    \/ \E all \in BOOLEAN, pick \in Picks :
           /\ active \/ active_view = FirstFocus
           /\ Toggle(all, "all", pick)
    \/ \E k \in KeyEvents, pick \in Picks : Key(k[1], k[2], pick)
    \/ \E v \in MainViews, pick \in Picks : ViewDetached(v, pick)
    \/ \E v \in MainViews, pick \in Picks : ViewMinimized(v, pick)
    \/ \E v \in MainViews, pick \in Picks : ViewRestored(v, pick)
    \/ \E w \in HostWorkspaces, pick \in Picks : WorkspaceChanged(w, pick)
    \/ \E v \in MainViews \cup {NULL}, pick \in Picks : ViewFocused(v, pick)
    \/ Tick

SpecCancel == InitCancel /\ [][NextCancel]_vars

\* SpecFade: the two top-level windows and two children of window 1 on two
\* workspaces, interaction passthrough on or off; toggles, arrow keys, clicks,
\* focus changes, frames and at most CoreHostEvents windows leaving
InitFade ==
    /\ InitPlugin
    /\ interact \in BOOLEAN
    /\ InitHost(MainViews, AllChildViews)
    /\ host_events = CoreHostEvents
    /\ geom = NoGeom

NextFade ==
    \/ \E all \in BOOLEAN, pick \in Picks : Toggle(all, "all", pick)
    \/ \E key \in Arrows, pick \in Picks : Key(key, TRUE, pick)
    \/ \E view \in MainViews, pick \in Picks :
           Button("left", TRUE, view, pick)
    \/ \E v \in MainViews \cup AllChildViews, pick \in Picks :
           ViewDetached(v, pick)
    \/ \E v \in MainViews \cup {NULL}, pick \in Picks : ViewFocused(v, pick)
    \/ Tick

SpecFade == InitFade /\ [][NextFade]_vars

\* max_scale_child
MaxScaleChild == [num |-> 1, den |-> 1]

RatTimes(p, q) == [num |-> p.num * q.num, den |-> p.den * q.den]

\* The inner loop of layout_slots() for a child with geometry cg of a view
\* whose cell is `cell` and whose scale is scale_x: child_scale is what the
\* loop computes into child_scale_x, scale and translation are what it hands
\* to setup_view_transform()
ChildSlotTarget(cell, scale_x, cg, allow_scale_zoom) ==
    LET fit == RatMin([num |-> cell.width, den |-> cg.width],
                      [num |-> cell.height, den |-> cg.height])
        capped == RatMin(fit, MaxScaleFactor)
        limit == RatTimes(MaxScaleChild, scale_x)
        child_scale_x ==
            IF allow_scale_zoom THEN fit
            ELSE IF MaxScaleChild.num > 0 /\ RatMin(capped, limit) # capped
                 THEN limit ELSE capped
    IN [child_scale |-> child_scale_x,
        scale |-> scale_x,
        translation_x |->
            TruncDiv(2 * (cell.x - cg.x) + (cell.width - cg.width), 2),
        translation_y |->
            TruncDiv(2 * (cell.y - cg.y) + (cell.height - cg.height), 2)]

\* SpecChild: one window and its child window, of any of the geometries, in
\* any of the workareas; the pair is mapped, unmapped, and scale/allow_zoom
\* is switched, each followed by the layout pass
InitChild ==
    /\ InitPlugin
    /\ interact = FALSE
    /\ InitHost({}, {})
    /\ host_events = 0
    /\ geom \in [workarea : Workareas, spacing : Spacings,
                 allow_scale_zoom : BOOLEAN, wm : {<<>>}, slots : {<<>>},
                 child_wm : {<<>>}, child_slots : {<<>>}]

\* the layout pass over the window of g and its child
ChildRelayout(g) ==
    LET slots == LayoutGeometry(g.workarea, g.spacing, g.allow_scale_zoom, g.wm)
    IN GeomRelayout(
           [g EXCEPT !.child_slots =
               [k \in DOMAIN g.child_wm |->
                   ChildSlotTarget(slots[k].cell, slots[k].target.scale,
                                   g.child_wm[k], g.allow_scale_zoom)]])

NextChild ==
    \/ \E vg, cg \in WmGeometries :
           /\ geom.wm = <<>>
           /\ ChildRelayout([geom EXCEPT !.wm = <<vg>>, !.child_wm = <<cg>>])
    \/ /\ geom.wm # <<>>
       /\ ChildRelayout([geom EXCEPT !.wm = <<>>, !.child_wm = <<>>])
    \/ /\ geom.wm # <<>>
       /\ ChildRelayout([geom EXCEPT !.allow_scale_zoom = ~@])

SpecChild == InitChild /\ [][NextChild]_vars

\* ------------------------------------------------------------ properties
\* the views with a scale transformer attached (view->get_transformer)
Transformed == has_transformer

\* C1: whenever control is back with the host, the windows with a slot
\* record are exactly the windows with a scale transformer attached.
C1_SlotsAreTransforms == Alive => Slots(St) = Transformed

\* deactivate() has run and the session has not been finalized or activated
\* again: deactivate() attaches the frame hooks of a session that is off
Deactivating == ~active /\ hook_set

FullyTornDown ==
    /\ ~active /\ Slots(St) = {} /\ Transformed = {}
    /\ ~hook_set /\ ~grabbed /\ ~plugin_active

\* C2: once deactivate() has run then, unless the session is activated
\* again, with frames being rendered it ends fully torn down: no slot
\* records, no transformers, frame hooks detached, grab and plugin
\* activation released.
C2_DeactivateEndsTornDown == Deactivating ~> (FullyTornDown \/ active)

\* the animation targets deactivate() gives a slot record
Restored(slot) == slot.tscale = "identity" /\ slot.talpha = "one"

\* C3: while the session is off but slot records are left, every slot
\* record's target is scale (1,1), translation (0,0) and opacity 1.
C3_DeactivatingTargetsIdentity ==
    (Alive /\ ~active /\ Slots(St) # {}) =>
        \A v \in Slots(St) : Restored(scale_data[v])

\* what finalize() leaves of a session
Finalized(s) ==
    /\ ~s.active /\ ~s.input_release_impending
    /\ Slots(s) = {} /\ s.has_transformer = {}
    /\ ~s.hook_set
    /\ s.connected = {} /\ s.geom_connected = {} /\ ~s.button_connected
    /\ ~s.grabbed

\* C4: from every reachable state finalize() ends with the session off, the
\* release-pending flag cleared, no slot records, no transformer on any
\* window, the frame hooks detached, every signal disconnected and the grab
\* released; a second finalize() changes nothing.
C4_FinalizeEndsSession ==
    Alive => /\ Finalized(finalize(St))
             /\ finalize(finalize(St)) = finalize(St)

\* finalize() has something of everything to undo: an active session with
\* the button signal and the structural signals connected, the frame hooks
\* attached and a child window transformed
C4_Witness ==
    /\ Alive /\ active /\ button_connected /\ hook_set
    /\ ChildViews \cap Transformed # {}
    /\ connected # {} /\ geom_connected # {}
    /\ finalize(St) # St /\ Finalized(finalize(St))

\* ---- the grid, as the specification words it
\* r = floor(sqrt(n))
IsFloorSqrt(r, n) == r >= 0 /\ r * r <= n /\ (r + 1) * (r + 1) > n

\* c = ceil(n / r)
IsCeilDiv(c, n, r) == r > 0 /\ (c - 1) * r < n /\ n <= c * r

\* the dimensions stored in s are those of a grid for n windows
GridForIn(s, n) ==
    /\ IsFloorSqrt(s.grid_rows, n + 1)
    /\ IsCeilDiv(s.grid_cols, n, s.grid_rows)
    /\ s.grid_last_row_cols = n - (s.grid_rows - 1) * s.grid_cols

GridFor(n) == GridForIn(St, n)

\* the place of v among the windows E in ascending order, from 0
Rank(E, v) == Cardinality({u \in E : u < v})

\* in s every window of E has a slot record and a transformer, and the cell
\* that filling the grid row by row in ascending order gives it
HoldCellsIn(s, E) ==
    \A v \in E :
        /\ s.scale_data[v].present /\ v \in s.has_transformer
        /\ s.scale_data[v].row = Rank(E, v) \div s.grid_cols
        /\ s.scale_data[v].col = Rank(E, v) % s.grid_cols

HoldCells(E) == HoldCellsIn(St, E)

\* the windows the session scales in its scope
Eligible == get_views(St)

AnimationRunning == \E v \in Slots(St) : scale_data[v].anim > 0

\* the step is "view-layer-detached" for v, and its handler has returned
DetachedStep(v) == status[v] # "gone" /\ status'[v] = "gone" /\ ~crashed'

ChildrenOf(v) == {c \in ChildViews \cap DOMAIN status : Parent(c) = v}

\* C5: a top-level window with a slot record is detached while the session
\* is active and animating: when the handler returns, the window and its
\* children have neither slot record nor transformer, and the windows still
\* eligible (if any) hold the cells of a grid for that many windows.
C5_DetachRemovesAndRelays ==
    [][\A v \in Toplevels \cap DOMAIN status :
          (/\ active /\ v \in Slots(St) /\ AnimationRunning
           /\ DetachedStep(v))
          => /\ \A u \in {v} \cup ChildrenOf(v) :
                    ~scale_data'[u].present /\ u \notin Transformed'
             /\ Eligible' # {} =>
                    (GridFor(Cardinality(Eligible)) /\ HoldCells(Eligible))'
      ]_vars

\* the one window that left the run was window 1 (its child is still there,
\* and a run starts with a child only beside its parent): neither has a slot
\* record or a transformer, and the five windows left share a 2 x 3 grid
C5_Witness ==
    /\ Alive /\ active /\ AnimationRunning /\ host_events = 0
    /\ status[1] = "gone" /\ ChildrenOf(1) # {}
    /\ \A u \in {1} \cup ChildrenOf(1) :
           ~scale_data[u].present /\ u \notin Transformed
    /\ \A c \in ChildrenOf(1) : status[c] = "mapped"
    /\ Cardinality(Eligible) = 5
    /\ GridFor(5) /\ HoldCells(Eligible)

\* ---- the steps that are host events the session handles
MinimizedStep == \E v \in DOMAIN status :
                     status[v] = "mapped" /\ status'[v] = "minimized"

AnyDetachedStep == \E v \in DOMAIN status :
                       status[v] # "gone" /\ status'[v] = "gone"

\* a window moved to another workspace, or the output switched workspace
GeometryStep == view_ws' # view_ws \/ cur_ws' # cur_ws

ToggleStep == \E all \in BOOLEAN, grant \in ToggleGrants, pick \in Picks :
                  Toggle(all, grant, pick)

OptionStep == \E pick \in Picks : AllowScaleZoomOption(pick)

\* C6: when the handler of a detach, a minimize, a geometry change, a scope
\* switch or an option change returns with no eligible window left in the
\* session's scope, the session that was active is no longer active.
C6_NeverActiveWithoutWindows ==
    [][(/\ active /\ ~crashed'
        /\ \/ AnyDetachedStep \/ MinimizedStep \/ GeometryStep
           \/ ToggleStep \/ OptionStep
        /\ Eligible' = {})
       => ~active']_vars

\* the Inactive state of the session: nothing of it exists
Inactive(s) ==
    /\ ~s.active /\ Slots(s) = {} /\ s.has_transformer = {}
    /\ ~s.hook_set /\ ~s.grabbed /\ ~s.plugin_active
    /\ s.connected = {} /\ s.geom_connected = {} /\ ~s.button_connected

\* the eligible windows of a scope
EligibleIn(s, all) ==
    IF all THEN get_all_workspace_views(s) ELSE get_current_workspace_views(s)

\* C7: a toggle of an Inactive session whose requested scope has no
\* eligible window returns false and leaves the session Inactive: no slot
\* records, transformers, frame hooks, grab or subscriptions, and the
\* plugin activation released again.
C7_EmptyToggleStaysInactive ==
    (Alive /\ Inactive(St)) =>
        \A all \in BOOLEAN, grant \in Grants, pick \in Picks :
            EligibleIn(St, all) = {} =>
                LET r == handle_toggle(Entry, all, grant, pick)
                IN ~r.ret /\ Inactive(r.st)

\* a session has come and gone, the current workspace is empty and another
\* one is not: the toggle for the current workspace is refused, the one for
\* all workspaces is not
C7_Witness ==
    /\ Alive /\ Inactive(St) /\ current_focus_view # NULL
    /\ EligibleIn(St, FALSE) = {} /\ EligibleIn(St, TRUE) # {}
    /\ ~handle_toggle(Entry, FALSE, "all", 1).ret
    /\ handle_toggle(Entry, TRUE, "all", 1).ret

\* C8: handle_toggle(m) of a session that is off attempts the activation in
\* scope m; of an active session whose scope is m, or whose two scopes hold
\* the same windows, deactivates; of an active session in the other scope,
\* the two scopes differing, sets the scope to m and lays the grid out over
\* the eligible windows of scope m, the session staying active if there are
\* any.
C8_ToggleDecision ==
    Alive =>
    \A m \in BOOLEAN, grant \in Grants, pick \in Picks :
        LET r == handle_toggle(Entry, m, grant, pick)
            E == EligibleIn(St, m)
            same == EligibleIn(St, TRUE) = EligibleIn(St, FALSE)
        IN /\ ~active =>
                /\ r.st.all_workspaces = m
                /\ (E # {} /\ grant = "all") =>
                        /\ r.ret /\ r.st.active
                        /\ GridForIn(r.st, Cardinality(E))
                        /\ HoldCellsIn(r.st, E)
                /\ ~r.ret => ~r.st.active
           /\ (active /\ (m = all_workspaces \/ same)) =>
                /\ r.ret /\ ~r.st.active
                /\ r.st.all_workspaces = all_workspaces
           /\ (active /\ m # all_workspaces /\ ~same) =>
                /\ r.ret /\ r.st.all_workspaces = m
                /\ E # {} =>
                        /\ r.st.active
                        /\ GridForIn(r.st, Cardinality(E))
                        /\ HoldCellsIn(r.st, E)

\* the third case: an active session of the current workspace, a window on
\* another one, and the toggle for all workspaces lays both out side by side
C8_Witness ==
    /\ Alive /\ active /\ ~all_workspaces
    /\ Cardinality(EligibleIn(St, FALSE)) = 1
    /\ Cardinality(EligibleIn(St, TRUE)) = 2
    /\ \E pick \in Picks :
           LET r == handle_toggle(Entry, TRUE, "all", pick)
           IN /\ r.ret /\ r.st.active /\ r.st.all_workspaces
              /\ r.st.grid_rows = 1 /\ r.st.grid_cols = 2
              /\ HoldCellsIn(r.st, EligibleIn(St, TRUE))

\* C9: a layout pass over N >= 1 windows stores grid_rows = floor(sqrt(N+1)),
\* grid_cols = ceil(N / grid_rows), grid_last_row_cols = N - (grid_rows - 1)
\* * grid_cols, with grid_rows * grid_cols >= N and 1 <= grid_last_row_cols
\* <= grid_cols.
C9_GridDimensions ==
    (Alive /\ active /\ Eligible # {}) =>
        LET N == Cardinality(Eligible)
        IN /\ GridFor(N)
           /\ grid_rows * grid_cols >= N
           /\ 1 <= grid_last_row_cols /\ grid_last_row_cols <= grid_cols

\* eight windows: three rows of three columns, two windows in the last row
C9_Witness ==
    /\ Alive /\ active /\ Cardinality(Eligible) = 8
    /\ grid_rows = 3 /\ grid_cols = 3 /\ grid_last_row_cols = 2

\* C10: after a layout pass over N >= 1 eligible top-level windows each has
\* one cell, no two share one, 0 <= row < grid_rows, col is below grid_cols
\* and in the last row below grid_last_row_cols, and the k-th window in
\* ascending order sits at (k div grid_cols, k mod grid_cols).
C10_CellsRowMajor ==
    (Alive /\ active /\ Eligible # {}) =>
        /\ HoldCells(Eligible)
        /\ \A v \in Eligible :
              /\ 0 <= scale_data[v].row /\ scale_data[v].row < grid_rows
              /\ 0 <= scale_data[v].col
              /\ scale_data[v].col <
                    (IF scale_data[v].row = grid_rows - 1
                     THEN grid_last_row_cols ELSE grid_cols)
        /\ \A u, v \in Eligible :
              (/\ scale_data[u].row = scale_data[v].row
               /\ scale_data[u].col = scale_data[v].col) => u = v

\* five windows, not the first five: a 2 x 3 grid with two windows in the
\* last row, the fifth of them at (1, 1)
C10_Witness ==
    /\ Alive /\ active /\ Eligible = {2, 3, 5, 7, 8}
    /\ grid_rows = 2 /\ grid_cols = 3 /\ grid_last_row_cols = 2
    /\ scale_data[8].row = 1 /\ scale_data[8].col = 1
    /\ scale_data[2].row = 0 /\ scale_data[2].col = 0

\* what a layout pass decides: the grid and, for every slot record, its cell
\* and the targets of its two animations
LayoutOutcome(s) ==
    [rows |-> s.grid_rows, cols |-> s.grid_cols, last |-> s.grid_last_row_cols,
     slots |-> [v \in Slots(s) |->
                   [row |-> s.scale_data[v].row, col |-> s.scale_data[v].col,
                    tscale |-> s.scale_data[v].tscale,
                    talpha |-> s.scale_data[v].talpha]]]

\* C11: with the eligible windows, the focus and the options unchanged, a
\* second layout_slots() pass right after a first one leaves the grid
\* dimensions, every window's (row, col) and every slot's target scale,
\* translation and opacity as the first pass set them.
C11_LayoutIdempotent ==
    (Alive /\ get_views(St) # {}) =>
        \A pick \in Picks :
            LET once == layout_slots(Entry, get_views(Entry), pick)
                twice == layout_slots(once, get_views(once), pick)
            IN /\ get_views(once) = get_views(Entry)
               /\ LayoutOutcome(twice) = LayoutOutcome(once)

\* an active session over window 1, its child and window 2 in which a pass
\* changes the outcome (the host lists another window first, which takes the
\* focus) and a second pass changes nothing more
C11_Witness ==
    /\ Alive /\ active /\ Cardinality(get_views(St)) = 2
    /\ Children(St, 1) # {}
    /\ \E pick \in Picks :
           LET once == layout_slots(Entry, get_views(Entry), pick)
           IN /\ LayoutOutcome(once) # LayoutOutcome(Entry)
              /\ LayoutOutcome(layout_slots(once, get_views(once), pick))
                     = LayoutOutcome(once)

\* the cells of the pass lie inside the workarea and no two of them overlap
CellsTileWorkarea ==
    /\ \A k \in DOMAIN geom.slots :
          LET c == geom.slots[k].cell
          IN /\ c.width >= 1 /\ c.height >= 1
             /\ geom.workarea.x <= c.x
             /\ c.x + c.width <= geom.workarea.x + geom.workarea.width
             /\ geom.workarea.y <= c.y
             /\ c.y + c.height <= geom.workarea.y + geom.workarea.height
    /\ \A k, l \in DOMAIN geom.slots :
          k # l =>
             LET c == geom.slots[k].cell
                 d == geom.slots[l].cell
             IN \/ c.x + c.width <= d.x \/ d.x + d.width <= c.x
                \/ c.y + c.height <= d.y \/ d.y + d.height <= c.y

\* s * window_width <= cell_width and s * window_height <= cell_height, and
\* s <= 1 when zooming in is not allowed
ScaleFitsCell(k) ==
    LET c == geom.slots[k].cell
        s == geom.slots[k].target.scale
        vg == geom.wm[k]
    IN /\ s.num * vg.width <= c.width * s.den
       /\ s.num * vg.height <= c.height * s.den
       /\ ~geom.allow_scale_zoom => s.num <= s.den

\* the transformer scales the window about its centre and then translates it:
\* the centre of the scaled window is the centre of the cell
CentredOnCell(k) ==
    LET c == geom.slots[k].cell
        t == geom.slots[k].target
        vg == geom.wm[k]
    IN /\ 2 * (vg.x + t.translation_x) + vg.width = 2 * c.x + c.width
       /\ 2 * (vg.y + t.translation_y) + vg.height = 2 * c.y + c.height

\* ... and the scaled window lies inside the cell (all sides times 2 * s.den)
InsideCell(k) ==
    LET c == geom.slots[k].cell
        t == geom.slots[k].target
        s == t.scale
        vg == geom.wm[k]
        cx == s.den * (2 * (vg.x + t.translation_x) + vg.width)
        cy == s.den * (2 * (vg.y + t.translation_y) + vg.height)
    IN /\ 2 * s.den * c.x <= cx - s.num * vg.width
       /\ cx + s.num * vg.width <= 2 * s.den * (c.x + c.width)
       /\ 2 * s.den * c.y <= cy - s.num * vg.height
       /\ cy + s.num * vg.height <= 2 * s.den * (c.y + c.height)

\* C12: in every layout over N >= 1 windows the cells do not overlap and lie
\* inside the workarea, and every window's target scale s and translation put
\* the scaled window inside its own cell: s * width <= cell width, s * height
\* <= cell height, centred on the cell centre, s <= 1 when zooming in is off.
C12_ScaledWindowInsideCell ==
    /\ CellsTileWorkarea
    /\ \A k \in DOMAIN geom.slots :
          ScaleFitsCell(k) /\ CentredOnCell(k) /\ InsideCell(k)

\* the cells and the scale factors alone
CellsAndScalesHold ==
    /\ CellsTileWorkarea
    /\ \A k \in DOMAIN geom.slots : ScaleFitsCell(k)

\* the columns of row r of the grid
RowCols(r) == IF r = grid_rows - 1 THEN grid_last_row_cols ELSE grid_cols

\* the host's focus is on the current focus window, an eligible window with a
\* slot record of the last layout pass
FocusInGrid ==
    /\ active /\ grabbed /\ active_view # NULL
    /\ active_view = current_focus_view
    /\ active_view \in Eligible
    /\ scale_data[active_view].present /\ scale_data[active_view].transformer

\* the eligible windows whose slot record holds the cell (row, col)
HoldersOf(row, col) ==
    {w \in Eligible : /\ scale_data[w].present /\ scale_data[w].transformer
                      /\ scale_data[w].row = row /\ scale_data[w].col = col}

\* the cell the claim sends an arrow key to from (r, c): the set of cells it
\* allows
ArrowCells(key, r, c) ==
    CASE key = "left" ->
            {[row |-> r, col |-> IF c = 0 THEN RowCols(r) - 1 ELSE c - 1]}
      [] key = "right" ->
            {[row |-> r, col |-> IF c = RowCols(r) - 1 THEN 0 ELSE c + 1]}
      [] key = "up" ->
            LET r2 == IF r = 0 THEN grid_rows - 1 ELSE r - 1
            IN {[row |-> r2, col |-> c2] : c2 \in 0..(RowCols(r2) - 1)}
      [] key = "down" ->
            LET r2 == IF r = grid_rows - 1 THEN 0 ELSE r + 1
            IN {[row |-> r2, col |-> c2] : c2 \in 0..(RowCols(r2) - 1)}

\* C13: an unmodified arrow-key press handled by an active session whose
\* focused window is at cell (r, c) moves Left/Right one column within row r,
\* wrapping at that row's column count, Up/Down one row, wrapping between
\* row 0 and the last row; the cell reached is inside the grid and the focus
\* (the plugin's and the host's) is on the window whose record holds it.
C13_ArrowKeysMoveOneCell ==
    (Alive /\ FocusInGrid) =>
        \A key \in Arrows, pick \in Picks :
            LET r == process_key(Entry, key, TRUE, pick)
                to == r.current_focus_view
            IN /\ r.active
               /\ to # NULL /\ r.active_view = to
               /\ \E cell \in ArrowCells(key, scale_data[active_view].row,
                                         scale_data[active_view].col) :
                     /\ 0 <= cell.row /\ cell.row < grid_rows
                     /\ 0 <= cell.col /\ cell.col < RowCols(cell.row)
                     /\ HoldersOf(cell.row, cell.col) = {to}

\* the grid is the grid of the windows now eligible
GridCurrent == GridFor(Cardinality(Eligible)) /\ HoldCells(Eligible)

\* the arrow keys on a grid that is current: every press lands as C13 says
ArrowKeysOnCurrentGrid ==
    (Alive /\ FocusInGrid /\ GridCurrent) =>
        \A key \in Arrows, pick \in Picks :
            LET r == process_key(Entry, key, TRUE, pick)
                to == r.current_focus_view
            IN /\ r.active
               /\ to # NULL /\ r.active_view = to
               /\ \E cell \in ArrowCells(key, scale_data[active_view].row,
                                         scale_data[active_view].col) :
                     /\ 0 <= cell.row /\ cell.row < grid_rows
                     /\ 0 <= cell.col /\ cell.col < RowCols(cell.row)
                     /\ HoldersOf(cell.row, cell.col) = {to}

\* two presses one after the other, nothing else happening in between: the
\* window focused after them
AfterTwoKeys(first, second, pick) ==
    process_key(process_key(Entry, first, TRUE, pick), second, TRUE, pick)

\* the focused cell is not in the first or last row / column of its row
InnerRow == /\ 0 < scale_data[active_view].row
            /\ scale_data[active_view].row < grid_rows - 1

InnerCol == /\ 0 < scale_data[active_view].col
            /\ scale_data[active_view].col <
                  RowCols(scale_data[active_view].row) - 1

\* the focus of r is on window v, at the cell v has now
FocusBackOn(r, v) ==
    /\ r.current_focus_view = v /\ r.active_view = v
    /\ r.scale_data[v].row = scale_data[v].row
    /\ r.scale_data[v].col = scale_data[v].col

\* C14: from a focused cell that is not on a grid edge, Up then Down, and
\* Left then Right, bring the focus back to the original cell and window.
C14_NavigationRoundTrip ==
    (Alive /\ FocusInGrid) =>
        \A pick \in Picks :
            /\ InnerRow => FocusBackOn(AfterTwoKeys("up", "down", pick),
                                       active_view)
            /\ InnerCol => FocusBackOn(AfterTwoKeys("left", "right", pick),
                                       active_view)

\* the round trips on a grid that is current
RoundTripOnCurrentGrid ==
    (Alive /\ FocusInGrid /\ GridCurrent) =>
        \A pick \in Picks :
            /\ InnerRow => FocusBackOn(AfterTwoKeys("up", "down", pick),
                                       active_view)
            /\ InnerCol => FocusBackOn(AfterTwoKeys("left", "right", pick),
                                       active_view)

\* eight windows, the focus in the middle of the grid: both round trips start
\* from here and pass through another window
RoundTripCase ==
    /\ Alive /\ FocusInGrid /\ GridCurrent /\ InnerRow /\ InnerCol
    /\ \A pick \in Picks :
          /\ process_key(Entry, "up", TRUE, pick).current_focus_view # active_view
          /\ process_key(Entry, "left", TRUE, pick).current_focus_view # active_view

\* the session handles keys and the host's active view is an eligible window
KeyOverEligible ==
    /\ active /\ grabbed /\ active_view # NULL /\ active_view \in Eligible

\* the workspace the host shows in r is the one holding the geometry of v
ShowsWorkspaceOf(r, v) == r.cur_ws = r.view_ws[Root(v)]

\* C15: an unmodified Enter press handled by an active session, the host's
\* active window being eligible, leaves the session not active, the host
\* focus on the current focus window and the host asked for the workspace
\* that holds that window's untransformed geometry.
C15_EnterSelectsFocusWindow ==
    (Alive /\ KeyOverEligible) =>
        \A pick \in Picks :
            LET r == process_key(Entry, "enter", TRUE, pick)
            IN /\ ~r.active
               /\ r.current_focus_view # NULL
               /\ r.active_view = r.current_focus_view
               /\ ShowsWorkspaceOf(r, r.current_focus_view)

\* the session handles keys and the host has an active view
KeyHandled == active /\ grabbed /\ active_view # NULL

\* C16: an unmodified Esc press handled by an active session leaves the
\* session not active, the host on the workspace recorded at activation and
\* the host focus on the window that was focused at activation if that
\* window still exists, whatever navigation, focus changes and removals
\* happened during the session.
C16_EscRestoresWorkspaceAndFocus ==
    (Alive /\ KeyHandled) =>
        \A pick \in Picks :
            LET r == process_key(Entry, "esc", TRUE, pick)
            IN /\ ~r.active
               /\ r.cur_ws = initial_workspace
               /\ status[FirstFocus] # "gone" => r.active_view = FirstFocus

\* the windows a primary-button press can land on: eligible and shown
UnderCursor == {v \in Eligible : v \in has_transformer \/ view_ws[v] = cur_ws}

\* C17: a primary-button press over an eligible window during an active
\* session makes that window the current focus window and the host's active
\* view; with interaction passthrough off the session is then not active and
\* the host shows the workspace of the clicked window, with passthrough on
\* the session stays active.
C17_ClickSelectsWindow ==
    (Alive /\ active /\ (grabbed \/ button_connected)) =>
        \A view \in UnderCursor, pick \in Picks :
            LET r == process_button(Entry, "left", TRUE, view, pick)
            IN /\ r.current_focus_view = view
               /\ r.active_view = view
               /\ ~interact => (~r.active /\ ShowsWorkspaceOf(r, view))
               /\ interact => r.active

\* the press that ended the session is still down: its release has not come
ReleasePending == ~active /\ input_release_impending /\ grabbed

\* the step delivers the release of a key or of a button to the session
ReleaseStep ==
    \/ \E k \in Keys, pick \in Picks : Key(k, FALSE, pick)
    \/ \E button \in Buttons, pick \in Picks :
           Button(button, FALSE, NULL, pick)

\* C18: from the Enter, Esc or primary-button press that ended the session
\* until its release has been received, the input grab stays held, so that
\* the release is not delivered to a window: no frame tick (an animation
\* finishing, finalize) and no other input event drops the grab before.
C18_GrabHeldUntilRelease ==
    [][(Alive /\ ReleasePending) => (grabbed' \/ ReleaseStep)]_vars

\* the opacity target of v and of each of its children that is shown scaled
FamilyFadesTo(r, v, talpha) ==
    /\ r.scale_data[v].talpha = talpha
    /\ \A c \in Children(r, v) :
           r.scale_data[c].transformer => r.scale_data[c].talpha = talpha

\* in r the current focus window and its children fade to 1, every other
\* eligible top-level window and its children to the inactive opacity
FocusFamilyOpaque(r) ==
    (r.active /\ r.current_focus_view \in get_views(r)) =>
        \A v \in get_views(r) :
            FamilyFadesTo(r, v, IF v = r.current_focus_view
                                THEN "one" ELSE "inactive")

\* C19: during an active session, after a layout pass, after an arrow key
\* and after a click on an eligible window, the current focus window and all
\* of its children have the opacity target 1, every other eligible top-level
\* window and its children the inactive opacity.
C19_FocusFamilyOpaque ==
    (Alive /\ active /\ Eligible # {}) =>
        \A pick \in Picks :
            /\ FocusFamilyOpaque(layout_slots(Entry, Eligible, pick))
            /\ KeyHandled =>
                   \A key \in Arrows :
                       FocusFamilyOpaque(process_key(Entry, key, TRUE, pick))
            /\ \A view \in UnderCursor :
                   FocusFamilyOpaque(
                       process_button(Entry, "left", TRUE, view, pick))

\* C20: when the host refuses the input grab in activate() (interaction
\* passthrough off, the session Inactive, the scope not empty), activate()
\* returns false and the state is what it was before the call: the session
\* Inactive (not active, no records, no transformers, frame hooks not
\* attached, plugin activation released), the host focus and the workspace
\* untouched.
C20_RefusedGrabLeavesNoTrace ==
    (Alive /\ Inactive(St) /\ ~interact) =>
        \A all \in BOOLEAN, pick \in Picks :
            EligibleIn(St, all) # {} =>
                LET r == activate([Entry EXCEPT !.all_workspaces = all],
                                  "no_grab", pick)
                IN /\ ~r.ret
                   /\ Inactive(r.st)
                   /\ r.st.active_view = active_view
                   /\ r.st.cur_ws = cur_ws

\* deactivate() has run and its animation has not finished: records and
\* transformers of the session are still there
FadingOut == ~active /\ hook_set /\ Slots(St) # {} /\ Transformed # {}

\* the state n rendered frames after s
RECURSIVE AfterFrames(_, _)
AfterFrames(s, n) ==
    IF n = 0 \/ ~s.hook_set THEN s
    ELSE AfterFrames(post_hook(advance_frame(s)), n - 1)

StructuralSignals ==
    {"view_attached", "view_detached", "workspace_changed", "view_minimized",
     "view_unmapped", "view_focused"}

\* r is an active session over its eligible windows, each one with a record
\* and a transformer and on its way to its cell, subscribed to the host
Reactivated(r) ==
    /\ r.active
    /\ \A v \in get_views(r) :
           /\ r.scale_data[v].present /\ r.scale_data[v].transformer
           /\ v \in r.has_transformer
           /\ r.scale_data[v].tscale = "cell"
    /\ StructuralSignals \subseteq r.connected
    /\ get_views(r) \subseteq r.geom_connected

HostEventStep ==
    \/ host_events' # host_events
    \/ \E v \in DOMAIN status \cup {NULL}, pick \in Picks : ViewFocused(v, pick)

\* C22: once deactivate() has returned, and until a new activation, no
\* structural signal reaches the session (attached, detached, minimized,
\* geometry changed, workspace changed, focused, unmapped): such an event
\* changes no slot record, no animation target and no focus variable, while
\* the frame hooks go on running.
C22_DeactivatedIgnoresHostEvents ==
    [][(Alive /\ Deactivating /\ HostEventStep) =>
           /\ scale_data' = scale_data
           /\ current_focus_view' = current_focus_view
           /\ initial_focus_view' = initial_focus_view]_vars

\* the step is a structural event whose handler the session has connected:
\* a window attached, detached, minimized, restored, unmapped, or moved or
\* resized while its geometry signal is connected
HandledStructuralStep ==
    \E v \in DOMAIN status, w \in Workspaces, pick \in Picks :
        \/ ViewAttached(v, w, pick) \/ ViewLayerAttached(v, pick)
        \/ ViewDetached(v, pick) \/ ViewUnmapped(v)
        \/ ViewMinimized(v, pick) \/ ViewRestored(v, pick)
        \/ v \in geom_connected /\ GeometryChanged(v, w, pick)

\* the stored grid is the grid of the eligible windows, each of them with a
\* slot record whose cell lies in it
GridCoversEligible ==
    LET n == Cardinality(Eligible)
    IN /\ IsFloorSqrt(grid_rows, n + 1)
       /\ IsCeilDiv(grid_cols, n, grid_rows)
       /\ \A v \in Eligible :
              /\ scale_data[v].present
              /\ scale_data[v].row \in 0..(grid_rows - 1)
              /\ scale_data[v].col \in 0..(grid_cols - 1)

\* C23: while the session is active, when the handler of a structural event
\* (a window attached, detached, minimized, restored, unmapped, its geometry
\* changed) returns, grid_rows and grid_cols are those of the N windows now
\* eligible and each of them has a slot record with a cell of that grid.
C23_RelayoutAfterStructuralEvent ==
    [][(/\ Alive /\ active /\ HandledStructuralStep
        /\ active' /\ ~crashed' /\ Eligible' # {})
       => GridCoversEligible']_vars

\* the two quotients are the same number
RatEq(p, q) == p.num * q.den = q.num * p.den

\* the child's own uniform scale against the cell of its parent, capped at 1
\* and at max_scale_child * parent scale when zooming in is off
OwnChildScale(k) ==
    LET c == geom.slots[k].cell
        cg == geom.child_wm[k]
        fit == RatMin([num |-> c.width, den |-> cg.width],
                      [num |-> c.height, den |-> cg.height])
    IN IF geom.allow_scale_zoom THEN fit
       ELSE RatMin(RatMin(fit, [num |-> 1, den |-> 1]),
                   RatTimes(MaxScaleChild, geom.slots[k].target.scale))

\* C24: in a layout pass of an active session the target scale of a child
\* window is the child's own uniform scale against its parent's cell,
\* min(cell_width / child_width, cell_height / child_height), capped at 1
\* and at max_scale_child * parent_scale when zooming in is off: computed
\* from the child's geometry, not the parent's scale.
C24_ChildScaledByOwnGeometry ==
    \A k \in DOMAIN geom.child_slots :
        RatEq(geom.child_slots[k].scale, OwnChildScale(k))

\* q is n / d rounded to the nearest integer (d > 0, halves up)
IsRound(q, n, d) == 2 * d * q <= 2 * n + d /\ 2 * n + d < 2 * d * (q + 1)

\* q is n / d rounded down (d > 0)
IsFloor(q, n, d) == d * q <= n /\ n < d * (q + 1)

\* the session navigates a grid of more than one row, the grid of the
\* windows now eligible
TallGrid == active /\ GridCurrent /\ grid_rows > 1

\* the columns Down gives from the row above the last one, and Up from the
\* last one
IntoLastRow(c) == NavCell(St, "down", grid_rows - 2, c).col

OutOfLastRow(c) == NavCell(St, "up", grid_rows - 1, c).col

\* C25 as stated: entering the last row from a full row the new column is
\* round(old_col * grid_last_row_cols / grid_cols), leaving it the inverse
\* mapping round(old_col * grid_cols / grid_last_row_cols), for every grid
\* of more than one row and every column.
C25_ColumnRemapRounds ==
    (Alive /\ TallGrid) =>
        /\ \A c \in 0..(grid_cols - 1) :
               IsRound(IntoLastRow(c), c * grid_last_row_cols, grid_cols)
        /\ \A c \in 0..(grid_last_row_cols - 1) :
               IsRound(OutOfLastRow(c), c * grid_cols, grid_last_row_cols)

\* C25, amended: when both rows have more than one column, entering the last
\* row gives floor(old_col * (grid_last_row_cols - 1) / (grid_cols - 1)), the
\* first and last column of a full row landing on the first and last column
\* of the last row, and leaving it gives floor((old_col + 0.5) * grid_cols /
\* grid_last_row_cols); with a single column in the last row the column is
\* kept, or is 0 when the last row does not have it.  The result is always a
\* column of the row entered.
C25_ColumnRemapFloors ==
    (Alive /\ TallGrid) =>
        /\ \A c \in 0..(grid_cols - 1) :
               /\ IntoLastRow(c) \in 0..(grid_last_row_cols - 1)
               /\ IF grid_last_row_cols > 1
                  THEN /\ IsFloor(IntoLastRow(c), c * (grid_last_row_cols - 1),
                                  grid_cols - 1)
                       /\ IntoLastRow(0) = 0
                       /\ IntoLastRow(grid_cols - 1) = grid_last_row_cols - 1
                  ELSE IntoLastRow(c) = 0
        /\ \A c \in 0..(grid_last_row_cols - 1) :
               /\ OutOfLastRow(c) \in 0..(grid_cols - 1)
               /\ IF grid_last_row_cols > 1
                  THEN IsFloor(OutOfLastRow(c), (2 * c + 1) * grid_cols,
                               2 * grid_last_row_cols)
                  ELSE OutOfLastRow(c) = c

\* a 2 x 3 grid with two windows in the last row, the focus in its last
\* column: where Down from the last column of the first row lands
C25_Witness ==
    /\ Alive /\ TallGrid /\ KeyHandled
    /\ grid_rows = 2 /\ grid_cols = 3 /\ grid_last_row_cols = 2
    /\ active_view = current_focus_view
    /\ scale_data[active_view].row = 1 /\ scale_data[active_view].col = 1
    /\ IntoLastRow(2) = 1 /\ IntoLastRow(1) = 0 /\ OutOfLastRow(1) = 2

\* in r the current focus window fades to 1 and every other window shown
\* scaled (the children of the focus window aside) to the inactive opacity
OnlyFocusOpaque(r) ==
    /\ r.current_focus_view # NULL
    /\ r.scale_data[r.current_focus_view].present
    /\ r.scale_data[r.current_focus_view].talpha = "one"
    /\ \A v \in Slots(r) \ {r.current_focus_view} :
           (r.scale_data[v].transformer /\ Parent(v) # r.current_focus_view)
               => r.scale_data[v].talpha = "inactive"

\* C26: right after a successful activate() the current focus window has
\* the opacity target 1 and every other window with a slot record the
\* inactive opacity, also when no window was focused before the activation
\* and when the window focused before is not an eligible one.
C26_ActivateFadesAllButFocus ==
    (Alive /\ ~active) =>
        \A all \in BOOLEAN, pick \in Picks :
            LET r == activate([Entry EXCEPT !.all_workspaces = all],
                              "all", pick)
            IN r.ret => OnlyFocusOpaque(r.st)

\* C27: in every state with the session active, the input grab is not held
\* when interaction passthrough is on and is held when it is off: after an
\* activation in either mode and after the option was switched either way
\* during the session.
C27_GrabFollowsInteract ==
    (Alive /\ active) => (grabbed <=> ~interact)

\* C28: setup_view_transform() is only ever called, from layout_slots(),
\* switch_scale_modes() and deactivate(), on a slot record with a
\* transformer attached: no sequence of events makes the session write
\* animation targets through a null transformer.
C28_TargetsNeedTransformer ==
    (Alive /\ active) =>
        \A pick \in Picks :
            /\ ~deactivate(Entry, pick).null_deref
            /\ Eligible # {} => ~layout_slots(Entry, Eligible, pick).null_deref
            /\ ~switch_scale_modes([Entry EXCEPT !.all_workspaces = ~@],
                                   pick).null_deref

\* C29: once remove_view() has removed a window from the session (it was
\* detached or minimized), neither current_focus_view nor initial_focus_view
\* is that window or one of its children, whichever window the host reports
\* as active at that moment.
C29_RemovedViewNotFocusVariable ==
    Alive =>
        \A view \in Slots(St) :
            LET r == remove_view(Entry, view)
                removed == {view} \cup Children(St, view)
            IN /\ r.current_focus_view \notin removed
               /\ r.initial_focus_view \notin removed

\* C30: whenever the session is not active and the frame hooks are not
\* attached there is no slot record and no window has a scale transformer:
\* a transformer outlives the session only while a frame is still to come
\* that removes it.
C30_NoTransformWithoutHook ==
    (Alive /\ ~active /\ ~hook_set) => (Slots(St) = {} /\ Transformed = {})

\* A session that has run and ended: the focus variable still names the
\* window chosen while scale was active, the hooks are detached, and nothing
\* of the session is left on the windows.
C30_Witness ==
    /\ Alive /\ ~active /\ ~hook_set
    /\ current_focus_view # NULL /\ status[current_focus_view] = "mapped"
    /\ Slots(St) = {} /\ Transformed = {}

\* Top-level windows that hold a record but are not in the eligible set of
\* the current scope.
OutsideScope(s) == {v \in Slots(s) \cap Toplevels : v \notin get_views(s)}

\* The animation targets of a window at rest: scale (1,1), translation
\* (0,0), opacity 1.
IdentityTargets(s, v) ==
    s.scale_data[v].tscale = "identity" /\ s.scale_data[v].talpha = "one"

\* C31: when the toggle handler has switched an active session from all
\* workspaces to the current workspace, every window with a record outside
\* the eligible set has the targets scale (1,1), translation (0,0) and
\* opacity 1, and every later step that leaves it outside the eligible set
\* leaves it those targets.
C31_OutOfScopeWindowsAtRest ==
    [][(Alive /\ Alive' /\ active /\ active' /\ ~all_workspaces') =>
          \A v \in OutsideScope(St)' :
              (\/ all_workspaces
               \/ (v \in OutsideScope(St) /\ IdentityTargets(St, v)))
                  => IdentityTargets(St, v)']_vars

====
